---- MODULE Spec2Model ----
(***************************************************************************)
(* Model of the retrieval-augmented question answering core of the         *)
(* repository: RAGProcessor (utils/rag_processor.py), process_query,       *)
(* classify_query and the direct-lookup handlers                           *)
(* (utils/query_processor.py) and the request handlers of app.py that      *)
(* share the single RAGProcessor instance.                                 *)
(*                                                                         *)
(* Text is a sequence of tokens.  The tokens are the pieces of text the    *)
(* chunker distinguishes: the keywords "def" and "class", a blank " ", the *)
(* line separator NL and an ordinary character "x".                        *)
(***************************************************************************)
EXTENDS Integers, Sequences, FiniteSets, TLC

VARIABLES
    chunks,        \* RAGProcessor.chunks: the list of CodeChunk
    vector_index,  \* RAGProcessor.vector_index: None or the flat L2 index
    call,          \* the last call or request made and what it returned or raised
    pc,            \* where each thread running process_repository stands
    frame,         \* the arguments and locals of each such thread
    repositories,  \* app.repositories: repo_id -> the data stored at upload
    upload_folder  \* the uploaded zip files present in app.config['UPLOAD_FOLDER']

vars == <<chunks, vector_index, call, pc, frame, repositories, upload_folder>>

threadVars == <<pc, frame>>
appVars == <<repositories, upload_folder>>

----------------------------------------------------------------------------
(* Bounds of the model *)

MaxLines == 4      \* lines of a file handed to the chunker on its own

----------------------------------------------------------------------------
(* Text *)

NL == "NL"
Whitespace == {" ", NL}

\* str.split('\n'): always at least one piece, "" splits into [""]
RECURSIVE SplitLines(_)
SplitLines(s) ==
    IF \A i \in 1..Len(s) : s[i] # NL
    THEN <<s>>
    ELSE LET i == CHOOSE j \in 1..Len(s) :
                      s[j] = NL /\ \A m \in 1..(j - 1) : s[m] # NL
         IN  <<SubSeq(s, 1, i - 1)>> \o SplitLines(SubSeq(s, i + 1, Len(s)))

\* '\n'.join(lines)
RECURSIVE JoinLines(_)
JoinLines(lines) ==
    IF lines = <<>> THEN <<>>
    ELSE IF Len(lines) = 1 THEN lines[1]
    ELSE lines[1] \o <<NL>> \o JoinLines(Tail(lines))

\* str.strip()
RECURSIVE LStrip(_)
LStrip(s) == IF s # <<>> /\ s[1] \in Whitespace THEN LStrip(Tail(s)) ELSE s

RECURSIVE RStrip(_)
RStrip(s) ==
    IF s # <<>> /\ s[Len(s)] \in Whitespace
    THEN RStrip(SubSeq(s, 1, Len(s) - 1)) ELSE s

Strip(s) == RStrip(LStrip(s))

\* str.startswith(('def ', 'class '))
StartsWithDefOrClass(s) ==
    /\ Len(s) >= 2
    /\ s[1] \in {"def", "class"}
    /\ s[2] = " "

----------------------------------------------------------------------------
(* CodeChunk and the chunker *)

NoEmbedding == <<>>      \* CodeChunk.embedding = None

CodeChunk(content, file_path, start_line, end_line) ==
    [content    |-> content,
     file_path  |-> file_path,
     start_line |-> start_line,
     end_line   |-> end_line,
     embedding  |-> NoEmbedding]

\* the test of line 88 on the line as it stands, not stripped
IsBoundary_NotStripped(line, current_chunk) ==
    StartsWithDefOrClass(line) /\ Len(current_chunk) > 1

\* the test of line 88 on the line just appended to current_chunk
IsBoundary(line, current_chunk) ==
    StartsWithDefOrClass(Strip(line)) /\ Len(current_chunk) > 1

\* lines 91-96: the chunk saved at a boundary found on line i; current_chunk
\* already holds line i, which stays out of the saved chunk
PreviousChunk_DupLine(file_path, current_chunk, start_line, i) ==
    CodeChunk(JoinLines(current_chunk), file_path, start_line, i - 1)

PreviousChunk_EndLine(file_path, current_chunk, start_line, i) ==
    CodeChunk(JoinLines(SubSeq(current_chunk, 1, Len(current_chunk) - 1)),
              file_path, start_line, i)

PreviousChunk(file_path, current_chunk, start_line, i) ==
    CodeChunk(JoinLines(SubSeq(current_chunk, 1, Len(current_chunk) - 1)),
              file_path, start_line, i - 1)

\* lines 102-108: the chunk left over when the loop ends
RemainingChunks(file_path, current_chunk, start_line, lines) ==
    IF current_chunk # <<>>
    THEN <<CodeChunk(JoinLines(current_chunk), file_path, start_line, Len(lines))>>
    ELSE <<>>

\* the loop of lines 84-99 from line i on, then lines 101-110
RECURSIVE ChunkLoop(_, _, _, _, _, _)
ChunkLoop(file_path, lines, i, acc, current_chunk, start_line) ==
    IF i > Len(lines)
    THEN acc \o RemainingChunks(file_path, current_chunk, start_line, lines)
    ELSE LET line == lines[i]
             cur  == Append(current_chunk, line)
         IN  IF IsBoundary(line, cur)
             THEN ChunkLoop(file_path, lines, i + 1,
                            IF Len(cur) > 1
                            THEN Append(acc, PreviousChunk(file_path, cur, start_line, i))
                            ELSE acc,
                            <<line>>, i)
             ELSE ChunkLoop(file_path, lines, i + 1, acc, cur, start_line)

_split_file_into_chunks(file_path, content) ==
    ChunkLoop(file_path, SplitLines(content), 1, <<>>, <<>>, 1)

\* [chunk.content for chunk in chunks]
ContentsOf(cs) == [i \in 1..Len(cs) |-> cs[i].content]

----------------------------------------------------------------------------
(* The embedding model and the flat L2 index (external libraries)          *)
(*                                                                         *)
(* A vector is a tuple of integers; a coordinate n stands for n/2, so a    *)
(* squared distance d stands for d/4 and One stands for 1.0.               *)

One == 4
FLT_MAX == 1000000      \* the distance the flat index puts in a slot it cannot serve

CountOf(text, tok) == Cardinality({i \in 1..Len(text) : text[i] = tok})

\* SentenceTransformer.encode on one text: deterministic, fixed dimension
Encode(text) == <<Len(text), CountOf(text, "x")>>

\* SentenceTransformer.encode on a list of texts: one vector per text, in order
EncodeAll(texts) == [i \in 1..Len(texts) |-> Encode(texts[i])]

RECURSIVE SumSquares(_, _, _)
SumSquares(u, v, i) ==
    IF i > Len(u) THEN 0
    ELSE (u[i] - v[i]) * (u[i] - v[i]) + SumSquares(u, v, i + 1)

L2Sqr(u, v) == SumSquares(u, v, 1)

NoIndex == [kind |-> "None"]

\* faiss.IndexFlatL2(dim) followed by add(embeddings)
IndexFlatL2(dim, embeddings) ==
    [kind |-> "IndexFlatL2", d |-> dim, xb |-> embeddings]

IndexSize(index) == IF index = NoIndex THEN 0 ELSE Len(index.xb)

\* the labels 0..n-1 of S by ascending distance, the lower label first on a tie
RECURSIVE NearestFirst(_, _)
NearestFirst(D, S) ==
    IF S = {} THEN <<>>
    ELSE LET i == CHOOSE a \in S :
                      \A b \in S : D[a + 1] < D[b + 1]
                                   \/ (D[a + 1] = D[b + 1] /\ a <= b)
         IN  <<i>> \o NearestFirst(D, S \ {i})

\* IndexFlatL2.search(query, k): k slots of (label, distance), nearest first;
\* a slot the index cannot serve holds label -1 and distance FLT_MAX
FaissSearch(index, q, k) ==
    LET n     == Len(index.xb)
        D     == [i \in 1..n |-> L2Sqr(index.xb[i], q)]
        order == NearestFirst(D, 0..(n - 1))
    IN  [j \in 1..k |->
            IF j <= n
            THEN [idx |-> order[j], distance |-> D[order[j] + 1]]
            ELSE [idx |-> -1, distance |-> FLT_MAX]]

----------------------------------------------------------------------------
(* RAGProcessor *)

\* files_data is a dict in insertion order: a sequence of (path, content)
File(path, content) == [path |-> path, content |-> content]

\* lines 54-60: the chunks of every file, appended to acc in the order of the dict
RECURSIVE ExtendWithFiles(_, _)
ExtendWithFiles(acc, files_data) ==
    IF files_data = <<>> THEN acc
    ELSE ExtendWithFiles(
             acc \o _split_file_into_chunks(files_data[1].path, files_data[1].content),
             Tail(files_data))

\* lines 115-122 with the vectors handed out in the opposite order
_create_embeddings_Reversed(cs) ==
    LET embeddings == EncodeAll(ContentsOf(cs))
    IN  [i \in 1..Len(cs) |-> [cs[i] EXCEPT !.embedding = embeddings[Len(cs) + 1 - i]]]

\* lines 115-122: every chunk gets the vector the model returned for its content
_create_embeddings(cs) ==
    LET embeddings == EncodeAll(ContentsOf(cs))
    IN  [i \in 1..Len(cs) |-> [cs[i] EXCEPT !.embedding = embeddings[i]]]

\* lines 126-137: nothing happens without chunks, else a new index replaces the old
_build_index(cs, old_index) ==
    IF cs = <<>>
    THEN old_index
    ELSE IndexFlatL2(Len(cs[1].embedding), [i \in 1..Len(cs) |-> cs[i].embedding])

\* process_repository: the state it leaves behind and whether it raised.
\* encodeOk: whether the embedding model answers (it raises otherwise).
process_repository(index, files_data, encodeOk) ==
    LET split == ExtendWithFiles(<<>>, files_data)
    IN  IF encodeOk
        THEN LET embedded == _create_embeddings(split)
             IN  [chunks       |-> embedded,
                  vector_index |-> _build_index(embedded, index),
                  raised       |-> FALSE]
        ELSE [chunks |-> split, vector_index |-> index, raised |-> TRUE]

\* self.chunks[idx] with Python's indexing: a negative idx counts from the end
PyItem(cs, idx) == IF idx >= 0 THEN cs[idx + 1] ELSE cs[Len(cs) + idx + 1]

PyIndexError(cs, idx) == idx >= Len(cs) \/ idx < 0 - Len(cs)

\* line 163: the test that lets a slot of the index result into the results
KeepHit_OffByOne(idx, n) == idx < n - 1

KeepHit(idx, n) == idx < n

\* lines 161-164
RECURSIVE CollectResults(_, _, _)
CollectResults(cs, hits, j) ==
    IF j > Len(hits) THEN <<>>
    ELSE IF KeepHit(hits[j].idx, Len(cs))
         THEN <<[chunk |-> PyItem(cs, hits[j].idx), distance |-> hits[j].distance]>>
              \o CollectResults(cs, hits, j + 1)
         ELSE CollectResults(cs, hits, j + 1)

\* search with the query embedded before the test of line 150
search_EncodeFirst(cs, index, query, k, encodeOk) ==
    IF ~encodeOk
    THEN [raised |-> TRUE, value |-> <<>>]
    ELSE IF index = NoIndex
    THEN [raised |-> FALSE, value |-> <<>>]
    ELSE LET hits == FaissSearch(index, Encode(query), k)
         IN  IF \E j \in 1..k : /\ KeepHit(hits[j].idx, Len(cs))
                                /\ PyIndexError(cs, hits[j].idx)
             THEN [raised |-> TRUE, value |-> <<>>]
             ELSE [raised |-> FALSE, value |-> CollectResults(cs, hits, 1)]

\* search: what it returns, or that it raised
search(cs, index, query, k, encodeOk) ==
    IF index = NoIndex
    THEN [raised |-> FALSE, value |-> <<>>]
    ELSE IF ~encodeOk
    THEN [raised |-> TRUE, value |-> <<>>]
    ELSE LET hits == FaissSearch(index, Encode(query), k)
         IN  IF \E j \in 1..k : /\ KeepHit(hits[j].idx, Len(cs))
                                /\ PyIndexError(cs, hits[j].idx)
             THEN [raised |-> TRUE, value |-> <<>>]
             ELSE [raised |-> FALSE, value |-> CollectResults(cs, hits, 1)]

DefaultK == 5

\* lines 265-273: one entry per retrieved pair, in retrieval order
_prepare_context(relevant_chunks) ==
    [j \in 1..Len(relevant_chunks) |->
        [file    |-> relevant_chunks[j].chunk.file_path,
         lines   |-> <<relevant_chunks[j].chunk.start_line,
                       relevant_chunks[j].chunk.end_line>>,
         content |-> relevant_chunks[j].chunk.content]]

\* lines 233-240 with one source per file, the best match of the file
SourcesOf_OnePerFile(relevant_chunks) ==
    LET first == SelectSeq([j \in 1..Len(relevant_chunks) |-> j],
                           LAMBDA j : \A m \in 1..(j - 1) :
                               relevant_chunks[m].chunk.file_path
                                   # relevant_chunks[j].chunk.file_path)
    IN  [n \in 1..Len(first) |->
            [file    |-> relevant_chunks[first[n]].chunk.file_path,
             lines   |-> <<relevant_chunks[first[n]].chunk.start_line,
                           relevant_chunks[first[n]].chunk.end_line>>,
             content |-> relevant_chunks[first[n]].chunk.content,
             score   |-> relevant_chunks[first[n]].distance]]

\* lines 233-240
SourcesOf(relevant_chunks) ==
    [j \in 1..Len(relevant_chunks) |->
        [file    |-> relevant_chunks[j].chunk.file_path,
         lines   |-> <<relevant_chunks[j].chunk.start_line,
                       relevant_chunks[j].chunk.end_line>>,
         content |-> relevant_chunks[j].chunk.content,
         score   |-> relevant_chunks[j].distance]]

Min(a, b) == IF a <= b THEN a ELSE b
Max(a, b) == IF a >= b THEN a ELSE b

\* line 245 without the clamp
ConfidenceOf_Unclamped(relevant_chunks) ==
    IF relevant_chunks # <<>> THEN relevant_chunks[1].distance ELSE 0

\* line 245
ConfidenceOf(relevant_chunks) ==
    Min(One, Max(0, IF relevant_chunks # <<>> THEN relevant_chunks[1].distance ELSE 0))

\* lines 242-246
GeneratedResponse(relevant_chunks) ==
    [answer     |-> "generated text",
     sources    |-> SourcesOf(relevant_chunks),
     confidence |-> ConfidenceOf(relevant_chunks)]

\* lines 248-253: a failure of the generation call is caught and turned into this
ErrorResponse_KeepSources(relevant_chunks) ==
    [answer     |-> "Error generating answer: e",
     sources    |-> SourcesOf(relevant_chunks),
     confidence |-> 0]

ErrorResponse(relevant_chunks) ==
    [answer     |-> "Error generating answer: e",
     sources    |-> <<>>,
     confidence |-> 0]

Raised == [kind |-> "exception"]

\* answer_question: the state it leaves behind, whether it raised, whether the
\* embedding model failed in it (lines 181 and 184, both before the try of line
\* 190), what it retrieved and the response it returned.  encodeBuild, encodeQuery: whether the
\* embedding model answers in the lazy build and in search; generateOk: whether
\* the text-generation call returns.
answer_question(cs, index, question, files_data, encodeBuild, encodeQuery, generateOk) ==
    LET built == IF index = NoIndex
                 THEN process_repository(index, files_data, encodeBuild)
                 ELSE [chunks |-> cs, vector_index |-> index, raised |-> FALSE]
        found == search(built.chunks, built.vector_index, question, DefaultK,
                        encodeQuery)
    IN  IF built.raised \/ found.raised
        THEN [chunks       |-> built.chunks,
              vector_index |-> built.vector_index,
              raised       |-> TRUE,
              encode_failed |-> \/ built.raised
                                \/ built.vector_index # NoIndex /\ ~encodeQuery,
              generation   |-> "not called",
              retrieved    |-> <<>>,
              context      |-> <<>>,
              response     |-> Raised]
        ELSE [chunks       |-> built.chunks,
              vector_index |-> built.vector_index,
              raised       |-> FALSE,
              encode_failed |-> FALSE,
              generation   |-> IF generateOk THEN "returned" ELSE "failed",
              retrieved    |-> found.value,
              context      |-> _prepare_context(found.value),
              response     |-> IF generateOk
                               THEN GeneratedResponse(found.value)
                               ELSE ErrorResponse(found.value)]

----------------------------------------------------------------------------
(* query_processor.process_query *)

\* a search that answer_question r ran: the index it ran against, what it found
SearchesOf(r) ==
    IF r.raised THEN <<>>
    ELSE <<[index |-> r.vector_index, retrieved |-> r.retrieved]>>

\* the response of lines 24-30 with the confidence lines 17-21 fall back to
QueryErrorResponse_DefaultConfidence ==
    [answer     |-> "Error processing query: e",
     sources    |-> <<>>,
     confidence |-> One]

\* query_processor.process_query, lines 24-30: any exception becomes this response
QueryErrorResponse ==
    [answer     |-> "Error processing query: e",
     sources    |-> <<>>,
     confidence |-> 0]

\* query_processor.process_query: the state it leaves behind, the methods of the
\* RAGProcessor it invoked, the searches that returned, whether the except of
\* line 24 caught an exception, and the response it returned.  It takes the
\* same path for every query: classify_query is not called.
process_query(cs, index, query, files_data, encodeBuild, encodeQuery, generateOk) ==
    LET built == IF index = NoIndex
                 THEN process_repository(index, files_data, encodeBuild)
                 ELSE [chunks |-> cs, vector_index |-> index, raised |-> FALSE]
        r     == answer_question(built.chunks, built.vector_index, query, files_data,
                                 encodeBuild, encodeQuery, generateOk)
    IN  IF built.raised
        THEN [chunks       |-> built.chunks,
              vector_index |-> built.vector_index,
              invoked      |-> {"process_repository"},
              searches     |-> <<>>,
              caught       |-> TRUE,
              response     |-> QueryErrorResponse]
        ELSE [chunks       |-> r.chunks,
              vector_index |-> r.vector_index,
              invoked      |-> (IF index = NoIndex THEN {"process_repository"} ELSE {})
                               \cup {"answer_question", "search"},
              searches     |-> SearchesOf(r),
              caught       |-> r.raised,
              response     |-> IF r.raised THEN QueryErrorResponse ELSE r.response]

----------------------------------------------------------------------------
(* The RAGProcessor under any sequence of calls *)

MaxK == 4      \* the largest k handed to search directly

ThreeChunks == <<"x", NL, "def", " ", "x", NL, "class", " ", "x">>
ThreeMore   == <<"x", " ", "x", NL, "def", " ", "x", " ", "x", NL, " ", "class", " ", "x">>

\* the files_data values the calls are made with
SampleFiles ==
    { <<>>,
      <<File("a.py", <<>>)>>,
      <<File("a.py", <<"x">>)>>,
      <<File("a.py", ThreeChunks)>>,
      <<File("a.py", ThreeChunks), File("b.py", ThreeMore)>>,
      <<File("b.py", <<"def", " ", "x">>), File("a.py", <<>>)>> }

Queries == { <<"x">>, <<"def", " ", "x", " ", "x">> }

\* the questions process_query is called with
RoutedQueries == { <<"x">>, <<"explain", " ", "function", " ", "x">> }

Init ==
    /\ chunks = <<>>
    /\ vector_index = NoIndex
    /\ call = [op |-> "__init__"]
    /\ pc = <<>>
    /\ frame = <<>>
    /\ repositories = <<>>
    /\ upload_folder = {}

\* what the call before this one was, as far as a rebuild is concerned
PreviousBuild ==
    IF call.op = "process_repository" /\ ~call.raised
    THEN [completed |-> TRUE, files_data |-> call.files_data]
    ELSE [completed |-> FALSE, files_data |-> <<>>]

ProcessRepository(files_data, encodeOk) ==
    \E r \in {process_repository(vector_index, files_data, encodeOk)} :
        /\ chunks' = r.chunks
        /\ vector_index' = r.vector_index
        /\ call' = [op         |-> "process_repository",
                    files_data |-> files_data,
                    raised     |-> r.raised,
                    previous   |-> PreviousBuild]
        /\ UNCHANGED <<threadVars, appVars>>

\* search as it would be if it dropped the index when the query cannot be embedded
Search_DropIndexOnError(query, k, encodeOk) ==
    \E r \in {search(chunks, vector_index, query, k, encodeOk)} :
        /\ call' = [op     |-> "search",
                    query  |-> query,
                    k      |-> k,
                    raised |-> r.raised,
                    value  |-> r.value]
        /\ vector_index' = IF r.raised THEN NoIndex ELSE vector_index
        /\ UNCHANGED <<chunks, threadVars, appVars>>

Search(query, k, encodeOk) ==
    \E r \in {search(chunks, vector_index, query, k, encodeOk)} :
        /\ call' = [op     |-> "search",
                    query  |-> query,
                    k      |-> k,
                    raised |-> r.raised,
                    value  |-> r.value]
        /\ UNCHANGED <<chunks, vector_index, threadVars, appVars>>

AnswerQuestion(question, files_data, encodeBuild, encodeQuery, generateOk) ==
    \E r \in {answer_question(chunks, vector_index, question, files_data,
                             encodeBuild, encodeQuery, generateOk)} :
        /\ chunks' = r.chunks
        /\ vector_index' = r.vector_index
        /\ call' = [op         |-> "answer_question",
                    question   |-> question,
                    raised     |-> r.raised,
                    encode_failed |-> r.encode_failed,
                    generation |-> r.generation,
                    retrieved  |-> r.retrieved,
                    context    |-> r.context,
                    response   |-> r.response]
        /\ UNCHANGED <<threadVars, appVars>>

ProcessQuery(query, files_data, encodeBuild, encodeQuery, generateOk) ==
    \E r \in {process_query(chunks, vector_index, query, files_data,
                           encodeBuild, encodeQuery, generateOk)} :
        /\ chunks' = r.chunks
        /\ vector_index' = r.vector_index
        /\ call' = [op       |-> "process_query",
                    query    |-> query,
                    invoked  |-> r.invoked,
                    caught   |-> r.caught,
                    response |-> r.response]
        /\ UNCHANGED <<threadVars, appVars>>

Next ==
    \/ \E f \in SampleFiles, ok \in BOOLEAN : ProcessRepository(f, ok)
    \/ \E q \in Queries, k \in 1..MaxK, ok \in BOOLEAN : Search(q, k, ok)
    \/ \E q \in Queries, f \in SampleFiles, b, e, g \in BOOLEAN :
           AnswerQuestion(q, f, b, e, g)
    \/ \E q \in RoutedQueries, f \in SampleFiles, b, e, g \in BOOLEAN :
           ProcessQuery(q, f, b, e, g)

Spec == Init /\ [][Next]_vars

----------------------------------------------------------------------------
(* Two threads of the server in process_repository on the shared RAGProcessor. *)
(* The server handles each request in a thread of its own and the code takes   *)
(* no lock, so the statements of the two calls interleave.  The embedding model *)
(* answers in these runs; a step is one statement or one loop of the method.    *)

Threads == {1, 2}

ThreadFiles ==
    { <<File("a.py", <<"x">>)>>,
      <<File("a.py", ThreeChunks)>>,
      <<File("b.py", <<"def", " ", "x">>), File("a.py", <<>>)>> }

ThreadsInit ==
    /\ chunks = <<>>
    /\ vector_index = NoIndex
    /\ call = [op |-> "__init__"]
    /\ pc = [t \in Threads |-> "clear"]
    /\ \E f1, f2 \in ThreadFiles :
           frame = [t \in Threads |->
                       [files_data |-> IF t = 1 THEN f1 ELSE f2,
                        i          |-> 1,
                        embeddings |-> <<>>]]
    /\ repositories = <<>>
    /\ upload_folder = {}

\* line 51
Clear(t) ==
    /\ pc[t] = "clear"
    /\ chunks' = <<>>
    /\ pc' = [pc EXCEPT ![t] = "extend"]
    /\ UNCHANGED <<vector_index, call, frame, appVars>>

\* lines 54-60, one file
Extend(t) ==
    /\ pc[t] = "extend"
    /\ frame[t].i <= Len(frame[t].files_data)
    /\ chunks' = ExtendWithFiles(chunks, <<frame[t].files_data[frame[t].i]>>)
    /\ frame' = [frame EXCEPT ![t].i = @ + 1]
    /\ UNCHANGED <<vector_index, call, pc, appVars>>

\* lines 115-118: the texts of the chunks there are now go to the model
Embed(t) ==
    /\ pc[t] = "extend"
    /\ frame[t].i > Len(frame[t].files_data)
    /\ frame' = [frame EXCEPT ![t].embeddings = EncodeAll(ContentsOf(chunks))]
    /\ pc' = [pc EXCEPT ![t] = "store"]
    /\ UNCHANGED <<chunks, vector_index, call, appVars>>

\* lines 121-122: zip pairs the chunks there are now with the vectors
Store(t) ==
    /\ pc[t] = "store"
    /\ chunks' = [i \in 1..Len(chunks) |->
                     IF i <= Len(frame[t].embeddings)
                     THEN [chunks[i] EXCEPT !.embedding = frame[t].embeddings[i]]
                     ELSE chunks[i]]
    /\ pc' = [pc EXCEPT ![t] = "build"]
    /\ UNCHANGED <<vector_index, call, frame, appVars>>

\* lines 126-133: len(None) raises for a chunk that has no embedding yet
NewIndex(t) ==
    /\ pc[t] = "build"
    /\ IF chunks = <<>>
       THEN pc' = [pc EXCEPT ![t] = "done"] /\ UNCHANGED vector_index
       ELSE IF chunks[1].embedding = NoEmbedding
       THEN pc' = [pc EXCEPT ![t] = "raised"] /\ UNCHANGED vector_index
       ELSE /\ vector_index' = IndexFlatL2(Len(chunks[1].embedding), <<>>)
            /\ pc' = [pc EXCEPT ![t] = "add"]
    /\ UNCHANGED <<chunks, call, frame, appVars>>

\* lines 136-137: the vectors of the chunks there are now are added to the index
\* self.vector_index names now; a chunk without embedding makes astype raise
AddToIndex(t) ==
    /\ pc[t] = "add"
    /\ IF \E i \in 1..Len(chunks) : chunks[i].embedding = NoEmbedding
       THEN pc' = [pc EXCEPT ![t] = "raised"] /\ UNCHANGED vector_index
       ELSE /\ vector_index' =
                  [vector_index EXCEPT
                      !.xb = @ \o [i \in 1..Len(chunks) |-> chunks[i].embedding]]
            /\ pc' = [pc EXCEPT ![t] = "done"]
    /\ UNCHANGED <<chunks, call, frame, appVars>>

ThreadsNext ==
    \E t \in Threads :
        \/ Clear(t)
        \/ Extend(t)
        \/ Embed(t)
        \/ Store(t)
        \/ NewIndex(t)
        \/ AddToIndex(t)

ThreadsSpec == ThreadsInit /\ [][ThreadsNext]_vars

----------------------------------------------------------------------------
(* process_query and the request handlers of app.py, each request handled   *)
(* from start to end before the next one.  One RAGProcessor (chunks,        *)
(* vector_index) serves every repository.                                   *)

MaxRepos == 2      \* uploads that get as far as storing a repository

\* app.generate_file_documentation asks these three questions about a file
DocQuestions ==
    << <<"x", " ", "x">>,
       <<"def", " ", "class">>,
       <<"x">> >>

\* the loop of app.py lines 246-248 from question n on; an exception ends it
RECURSIVE AskDocQuestions(_, _, _, _, _, _, _)
AskDocQuestions(cs, index, file, n, encodeOk, generateOk, searches) ==
    IF n > Len(DocQuestions)
    THEN [chunks |-> cs, vector_index |-> index, searches |-> searches]
    ELSE LET r == answer_question(cs, index, DocQuestions[n], <<file>>,
                                  encodeOk, encodeOk, generateOk)
         IN  IF r.raised
             THEN [chunks |-> r.chunks, vector_index |-> r.vector_index,
                   searches |-> searches]
             ELSE AskDocQuestions(r.chunks, r.vector_index, file, n + 1, encodeOk,
                                  generateOk, searches \o SearchesOf(r))

\* app.generate_file_documentation: every exception is caught (line 251)
generate_file_documentation(cs, index, file, encodeOk, generateOk) ==
    LET built == IF index = NoIndex
                 THEN process_repository(index, <<file>>, encodeOk)
                 ELSE [chunks |-> cs, vector_index |-> index, raised |-> FALSE]
    IN  IF built.raised
        THEN [chunks |-> built.chunks, vector_index |-> built.vector_index,
              searches |-> <<>>]
        ELSE AskDocQuestions(built.chunks, built.vector_index, file, 1, encodeOk,
                             generateOk, <<>>)

\* app.generate_documentation, lines 170-177: file after file; encodeOk[i] tells
\* whether the embedding model answers while file i is documented
RECURSIVE DocumentFiles(_, _, _, _, _, _, _)
DocumentFiles(cs, index, files_data, i, encodeOk, generateOk, searches) ==
    IF i > Len(files_data)
    THEN [chunks |-> cs, vector_index |-> index, searches |-> searches]
    ELSE LET r == generate_file_documentation(cs, index, files_data[i],
                                              encodeOk[i], generateOk)
         IN  DocumentFiles(r.chunks, r.vector_index, files_data, i + 1, encodeOk,
                           generateOk, searches \o r.searches)

\* the repositories a zip file can hold
UploadedFiles ==
    { <<File("a.py", <<"x">>)>>,
      <<File("a.py", ThreeChunks)>>,
      <<File("b.py", <<"def", " ", "x">>), File("a.py", <<>>)>> }

FileNames == {"repo.zip"}

\* app.upload_repository line 84
SummaryQuestion == <<"x", " ", "x", " ", "x">>

UserQueries == { <<"x">>, <<"def", " ", "x">> }

\* the requests /upload rejects before it saves anything (lines 35-43)
RejectedUploads == {"no file part", "no file selected", "not a zip file"}

\* the uploads that fail after the file was saved and before anything is stored:
\* a file that is no zip (line 60), a zip without entries (line 59), a failure of
\* extract_repository (line 66), no file extracted (line 68), a failure of
\* analyze_repository (line 70)
FailedUploads ==
    {"bad zip", "empty zip", "extraction fails", "no files extracted", "analysis fails"}

AppInit ==
    /\ chunks = <<>>
    /\ vector_index = NoIndex
    /\ call = [op |-> "__init__"]
    /\ pc = <<>>
    /\ frame = <<>>
    /\ repositories = <<>>
    /\ upload_folder = {}

\* uuid.uuid4(): an id no repository has
NewRepoId == Cardinality(DOMAIN repositories) + 1

StoreRepository(repo_id, files_data) ==
    [id \in DOMAIN repositories \cup {repo_id} |->
        IF id = repo_id THEN [files |-> files_data] ELSE repositories[id]]

\* POST /upload that ends at lines 36, 40 or 43
UploadRejected(kind) ==
    /\ call' = [op |-> "/upload", outcome |-> kind, status |-> 400,
                repo_id |-> 0, searches |-> <<>>]
    /\ UNCHANGED <<chunks, vector_index, threadVars, appVars>>

\* POST /upload that saves the file (line 52) and fails before line 73
UploadFailed(kind, filename) ==
    /\ upload_folder' = IF kind = "empty zip"
                        THEN upload_folder \cup {filename}
                        ELSE upload_folder \ {filename}
    /\ call' = [op |-> "/upload", outcome |-> kind,
                status |-> IF kind = "bad zip" THEN 400 ELSE 500,
                repo_id |-> 0, searches |-> <<>>, filename |-> filename]
    /\ UNCHANGED <<chunks, vector_index, threadVars, repositories>>

\* POST /upload that gets to line 73 and builds the index of the uploaded files
\* whether or not there is an index already
UploadStored_AlwaysBuilds(filename, files_data, encodeBuild, encodeQuery, generateOk) ==
    /\ Cardinality(DOMAIN repositories) < MaxRepos
    /\ \E built \in {process_repository(vector_index, files_data, encodeBuild)} :
       \E r \in {answer_question(built.chunks, built.vector_index, SummaryQuestion,
                                 files_data, encodeBuild, encodeQuery, generateOk)} :
           /\ repositories' = StoreRepository(NewRepoId, files_data)
           /\ upload_folder' = upload_folder \ {filename}
           /\ chunks' = IF built.raised THEN built.chunks ELSE r.chunks
           /\ vector_index' = IF built.raised THEN built.vector_index ELSE r.vector_index
           /\ call' = [op       |-> "/upload",
                       outcome  |-> IF built.raised \/ r.raised
                                    THEN "processing fails" ELSE "success",
                       status   |-> IF built.raised \/ r.raised THEN 500 ELSE 200,
                       repo_id  |-> NewRepoId,
                       searches |-> IF built.raised THEN <<>> ELSE SearchesOf(r),
                       filename |-> filename]
    /\ UNCHANGED threadVars

\* POST /upload that gets to line 73: the repository is stored, the index is
\* built if there is none, the summary is asked for, the file is removed.
\* (session['repo_id'], line 47, lives in the client's cookie and is left out.)
UploadStored(filename, files_data, encodeBuild, encodeQuery, generateOk) ==
    /\ Cardinality(DOMAIN repositories) < MaxRepos
    /\ \E built \in {IF vector_index = NoIndex
                     THEN process_repository(vector_index, files_data, encodeBuild)
                     ELSE [chunks |-> chunks, vector_index |-> vector_index,
                           raised |-> FALSE]} :
       \E r \in {answer_question(built.chunks, built.vector_index, SummaryQuestion,
                                 files_data, encodeBuild, encodeQuery, generateOk)} :
           /\ repositories' = StoreRepository(NewRepoId, files_data)
           /\ upload_folder' = upload_folder \ {filename}
           /\ chunks' = IF built.raised THEN built.chunks ELSE r.chunks
           /\ vector_index' = IF built.raised THEN built.vector_index ELSE r.vector_index
           /\ call' = [op       |-> "/upload",
                       outcome  |-> IF built.raised \/ r.raised
                                    THEN "processing fails" ELSE "success",
                       status   |-> IF built.raised \/ r.raised THEN 500 ELSE 200,
                       repo_id  |-> NewRepoId,
                       searches |-> IF built.raised THEN <<>> ELSE SearchesOf(r),
                       filename |-> filename]
    /\ UNCHANGED threadVars

\* POST /query that ends at line 113 or 117
QueryRejected(repo_id) ==
    /\ repo_id \notin DOMAIN repositories
    /\ call' = [op |-> "/query", outcome |-> "not accepted",
                status |-> IF repo_id = 0 THEN 400 ELSE 404,
                repo_id |-> repo_id, searches |-> <<>>]
    /\ UNCHANGED <<chunks, vector_index, threadVars, appVars>>

\* POST /query for a stored repository
HandleQuery(repo_id, query, encodeBuild, encodeQuery, generateOk) ==
    /\ repo_id \in DOMAIN repositories
    /\ \E r \in {process_query(chunks, vector_index, query, repositories[repo_id].files,
                               encodeBuild, encodeQuery, generateOk)} :
           /\ chunks' = r.chunks
           /\ vector_index' = r.vector_index
           /\ call' = [op       |-> "/query",
                       outcome  |-> IF r.caught THEN "recovered" ELSE "answered",
                       status   |-> 200,
                       repo_id  |-> repo_id,
                       searches |-> r.searches,
                       response |-> r.response]
    /\ UNCHANGED <<threadVars, appVars>>

\* POST /generate-docs for a stored repository; the directory and the zip file it
\* writes are removed again before it returns (lines 218-223)
GenerateDocs(repo_id, encodeOk, generateOk) ==
    /\ repo_id \in DOMAIN repositories
    /\ DOMAIN encodeOk = 1..Len(repositories[repo_id].files)
    /\ \E r \in {DocumentFiles(chunks, vector_index, repositories[repo_id].files, 1,
                               encodeOk, generateOk, <<>>)} :
           /\ chunks' = r.chunks
           /\ vector_index' = r.vector_index
           /\ call' = [op       |-> "/generate-docs",
                       outcome  |-> "sent",
                       status   |-> 200,
                       repo_id  |-> repo_id,
                       searches |-> r.searches]
    /\ UNCHANGED <<threadVars, appVars>>

\* whether the embedding model answers, file by file of a repository
Availabilities ==
    UNION {[1..Len(f) -> BOOLEAN] : f \in UploadedFiles}

AppNext ==
    \/ \E kind \in RejectedUploads : UploadRejected(kind)
    \/ \E kind \in FailedUploads, fn \in FileNames : UploadFailed(kind, fn)
    \/ \E fn \in FileNames, f \in UploadedFiles, b, e, g \in BOOLEAN :
           UploadStored(fn, f, b, e, g)
    \/ \E id \in 0..MaxRepos : QueryRejected(id)
    \/ \E id \in 1..MaxRepos, q \in UserQueries, b, e, g \in BOOLEAN :
           HandleQuery(id, q, b, e, g)
    \/ \E id \in 1..MaxRepos, ok \in Availabilities, g \in BOOLEAN :
           GenerateDocs(id, ok, g)

AppSpec == AppInit /\ [][AppNext]_vars

----------------------------------------------------------------------------
(* The chunker on its own: every file content of up to MaxLines lines *)

LineSet ==
    { <<>>,
      <<"x">>,
      <<"def", " ", "x">>,
      <<" ", "class", " ", "x">>,
      <<"def">>,
      <<"def", " ">>,
      <<"x", " ", "def", " ", "x">> }

RECURSIVE SeqsUpTo(_, _)
SeqsUpTo(S, n) ==
    IF n = 0 THEN {<<>>}
    ELSE LET shorter == SeqsUpTo(S, n - 1)
         IN  shorter \cup {Append(s, x) : s \in shorter, x \in S}

FileContents == {JoinLines(ls) : ls \in SeqsUpTo(LineSet, MaxLines)}

ChunkerInit ==
    /\ chunks = <<>>
    /\ vector_index = NoIndex
    /\ pc = <<>>
    /\ frame = <<>>
    /\ repositories = <<>>
    /\ upload_folder = {}
    /\ \E c \in FileContents : call = [op |-> "input", content |-> c]

SplitFile ==
    /\ call.op = "input"
    /\ call' = [op        |-> "_split_file_into_chunks",
                content   |-> call.content,
                result    |-> _split_file_into_chunks("a.py", call.content)]
    /\ UNCHANGED <<chunks, vector_index, threadVars, appVars>>

ChunkerNext == SplitFile

ChunkerSpec == ChunkerInit /\ [][ChunkerNext]_vars

----------------------------------------------------------------------------
(* query_processor.classify_query                                           *)
(*                                                                          *)
(* A query is a sequence of pieces: words, ".", a quote and blanks.  No      *)
(* keyword of a pattern spans two pieces; a word may end with a keyword it   *)
(* is not ("explain" ends with "in"), which the patterns, having no word     *)
(* boundary, match.                                                          *)

MaxWords == 3      \* words of a query handed to classify_query on its own

\* the pieces made of [a-zA-Z0-9] only
AlnumPieces ==
    {"x", "py", "def", "file", "in", "about", "function", "method", "class",
     "import", "library", "module", "package", "summarize", "summary",
     "overview", "explain", "structure"}

\* [a-zA-Z0-9_]
IdentifierPieces == AlnumPieces \cup {"_"}

\* [a-zA-Z0-9_\-./]
PathPieces == AlnumPieces \cup {"_", "-", ".", "/"}

\* [a-zA-Z0-9_\-.]
LibraryPieces == AlnumPieces \cup {"_", "-", "."}

\* ['"]
Quotes == {"'", "\""}

\* the alternatives of a pattern's first group that the piece ends with
KeywordsEnding(piece) ==
    IF piece = "explain" THEN {"in"} ELSE {piece}

\* what re.search returns when nothing matches, and the target of a query
\* that has none
None == <<>>

\* the last position of the longest run of pieces of S that starts at i
\* (i - 1 when there is none)
RECURSIVE RunEnd(_, _, _)
RunEnd(query, i, S) ==
    IF i <= Len(query) /\ query[i] \in S THEN RunEnd(query, i + 1, S) ELSE i - 1

\* ([a-zA-Z0-9_]+) at position i: greedy, the whole run
IdentifierAt(query, i) ==
    SubSeq(query, i, RunEnd(query, i, IdentifierPieces))

\* ([a-zA-Z0-9_\-./]+\.[a-zA-Z0-9]+) at position i: the first + takes the most
\* it can and gives back until a "." followed by [a-zA-Z0-9] is left, so the
\* last such "." of the run is the one matched, with at least one piece before
\* it; the second + then takes the whole alphanumeric run
PathAt(query, i) ==
    LET e == RunEnd(query, i, PathPieces)
        dots == {p \in (i + 1)..(e - 1) :
                    query[p] = "." /\ query[p + 1] \in AlnumPieces}
    IN  IF dots = {} THEN None
        ELSE LET p == CHOOSE d \in dots : \A o \in dots : o <= d
             IN  SubSeq(query, i, RunEnd(query, p + 1, AlnumPieces))

\* ([a-zA-Z0-9_\-.]+) at position i
LibraryAt(query, i) ==
    SubSeq(query, i, RunEnd(query, i, LibraryPieces))

\* the second group of a pattern at position i
GroupAt(query, i, group) ==
    CASE group = "identifier" -> IdentifierAt(query, i)
      [] group = "path" -> PathAt(query, i)
      [] group = "library" -> LibraryAt(query, i)

\* group 2 of (keyword)\s+['"]?(group)['"]? with the keyword ending at piece i,
\* None when the pattern does not match there
GroupAfter(query, i, keywords, group) ==
    IF KeywordsEnding(query[i]) \cap keywords = {} THEN None
    ELSE LET s == RunEnd(query, i + 1, Whitespace)
             g == IF s + 1 <= Len(query) /\ query[s + 1] \in Quotes
                  THEN s + 2 ELSE s + 1
         IN  IF s = i THEN None ELSE GroupAt(query, g, group)

\* re.search(...).group(2): of the leftmost match
re_search(query, keywords, group) ==
    LET starts == {i \in 1..Len(query) :
                      GroupAfter(query, i, keywords, group) # None}
    IN  IF starts = {} THEN None
        ELSE GroupAfter(query, CHOOSE i \in starts : \A o \in starts : i <= o,
                        keywords, group)

\* line 43
FileKeywords == {"file", "in", "about"}
\* line 48
FunctionKeywords == {"function", "method"}
\* line 53
ClassKeywords == {"class"}
\* line 58
ImportKeywords == {"import", "library", "module", "package"}
\* line 63
SummaryKeywords == {"summarize", "summary", "overview", "explain", "structure"}

file_match(query) == re_search(query, FileKeywords, "path")
function_match(query) == re_search(query, FunctionKeywords, "identifier")
class_match(query) == re_search(query, ClassKeywords, "identifier")
import_match(query) == re_search(query, ImportKeywords, "library")

\* line 63: any(word in query ...)
HasSummaryKeyword(query) ==
    \E i \in 1..Len(query) : query[i] \in SummaryKeywords

\* the chain of lines 43-67 with the summary test moved to the front
classify_query_SummaryFirst(query) ==
    IF HasSummaryKeyword(query) THEN <<"summary", None>>
    ELSE IF file_match(query) # None THEN <<"file_specific", file_match(query)>>
    ELSE IF function_match(query) # None THEN <<"function", function_match(query)>>
    ELSE IF class_match(query) # None THEN <<"class", class_match(query)>>
    ELSE IF import_match(query) # None THEN <<"import", import_match(query)>>
    ELSE <<"general", None>>

\* lines 32-67
classify_query(query) ==
    IF file_match(query) # None THEN <<"file_specific", file_match(query)>>
    ELSE IF function_match(query) # None THEN <<"function", function_match(query)>>
    ELSE IF class_match(query) # None THEN <<"class", class_match(query)>>
    ELSE IF import_match(query) # None THEN <<"import", import_match(query)>>
    ELSE IF HasSummaryKeyword(query) THEN <<"summary", None>>
    ELSE <<"general", None>>

----------------------------------------------------------------------------
(* The direct-lookup handlers of query_processor.  The structural facts      *)
(* (analysis) are an input: analysis['functions'] and analysis['classes']    *)
(* are sequences of entries (file_path, records) in the order of the dict,   *)
(* a name or a docstring is a sequence of letters.  The handlers do not use  *)
(* their query argument, which is left out.                                  *)

\* the ASCII letters, a lower-case letter and its upper-case letter at one position
LowerCaseLetters ==
    <<"a", "b", "c", "d", "e", "f", "g", "h", "i", "j", "k", "l", "m",
      "n", "o", "p", "q", "r", "s", "t", "u", "v", "w", "x", "y", "z">>
UpperCaseLetters ==
    <<"A", "B", "C", "D", "E", "F", "G", "H", "I", "J", "K", "L", "M",
      "N", "O", "P", "Q", "R", "S", "T", "U", "V", "W", "X", "Y", "Z">>

LowerChar(c) ==
    IF \E n \in 1..Len(UpperCaseLetters) : UpperCaseLetters[n] = c
    THEN LowerCaseLetters[CHOOSE n \in 1..Len(UpperCaseLetters) : UpperCaseLetters[n] = c]
    ELSE c

\* str.lower()
Lower(s) == [i \in 1..Len(s) |-> LowerChar(s[i])]

\* str.capitalize(): the first character in upper case, the others in lower case
Capitalize(s) ==
    [i \in 1..Len(s) |->
        IF i > 1 THEN LowerChar(s[i])
        ELSE IF \E n \in 1..Len(LowerCaseLetters) : LowerCaseLetters[n] = s[i]
        THEN UpperCaseLetters[CHOOSE n \in 1..Len(LowerCaseLetters) :
                                  LowerCaseLetters[n] = s[i]]
        ELSE s[i]]

\* needle in hay, for two strings
Contains(hay, needle) ==
    \E i \in 0..(Len(hay) - Len(needle)) : SubSeq(hay, i + 1, i + Len(needle)) = needle

\* a handler's outcome: the dict it returned, or that it raised
Returned(response) == [raised |-> FALSE, response |-> response]
HandlerRaised == [raised |-> TRUE, response |-> Raised]

HasFile(files_data, file_path) ==
    \E i \in 1..Len(files_data) : files_data[i].path = file_path

\* files_data[file_path]['content']
ContentOfFile(files_data, file_path) ==
    files_data[CHOOSE i \in 1..Len(files_data) : files_data[i].path = file_path].content

\* analysis[...].get(file_path, [])
RecordsOf(entries, file_path) ==
    IF \E i \in 1..Len(entries) : entries[i].file_path = file_path
    THEN entries[CHOOSE i \in 1..Len(entries) : entries[i].file_path = file_path].records
    ELSE <<>>

\* line.startswith(' ' * n)
StartsWithBlanks(line, n) ==
    Len(line) >= n /\ \A i \in 1..n : line[i] = " "

\* lines 695-698, 712-715: the first line after the block that starts at line
\* start (both counted from 0); the text of the model has no tabs
RECURSIVE BlockEnd(_, _, _)
BlockEnd(lines, end, indent_level) ==
    IF end < Len(lines)
       /\ (Strip(lines[end + 1]) = <<>> \/ StartsWithBlanks(lines[end + 1], indent_level + 1))
    THEN BlockEnd(lines, end + 1, indent_level)
    ELSE end

\* lines[start] of extract_function_code and extract_class_code raises IndexError
ExtractRaises(content, line_number) ==
    Max(0, line_number - 1) >= Len(SplitLines(content))

\* lines 685-700
extract_function_code(content, function_name, line_number) ==
    LET lines == SplitLines(content)
        start == Max(0, line_number - 1)
        def_line == lines[start + 1]
        indent_level == Len(def_line) - Len(LStrip(def_line))
    IN  JoinLines(SubSeq(lines, start + 1, BlockEnd(lines, start + 1, indent_level)))

\* lines 702-717: the same statements
extract_class_code(content, class_name, line_number) ==
    extract_function_code(content, class_name, line_number)

\* lines 292-295 with the names compared as they are written
RECURSIVE Occurrences_CaseSensitive(_, _)
Occurrences_CaseSensitive(entries, name) ==
    IF entries = <<>> THEN <<>>
    ELSE LET matching == SelectSeq(entries[1].records,
                                   LAMBDA r : Contains(r.name, name))
         IN  [i \in 1..Len(matching) |->
                 [file_path |-> entries[1].file_path, record |-> matching[i]]]
             \o Occurrences_CaseSensitive(Tail(entries), name)

\* lines 292-295, 329-332: the (file_path, record) pairs whose name contains the
\* asked name, ignoring case, in the order of the entries
RECURSIVE Occurrences(_, _)
Occurrences(entries, name) ==
    IF entries = <<>> THEN <<>>
    ELSE LET matching == SelectSeq(entries[1].records,
                                   LAMBDA r : Contains(Lower(r.name), Lower(name)))
         IN  [i \in 1..Len(matching) |->
                 [file_path |-> entries[1].file_path, record |-> matching[i]]]
             \o Occurrences(Tail(entries), name)

\* [:3]
FirstThree(seq) == SubSeq(seq, 1, Min(3, Len(seq)))

\* lines 306-317, 343-354: files_data[file_path] raises KeyError, lines[start]
\* IndexError
ReferenceRaises(files_data, occurrence) ==
    \/ ~HasFile(files_data, occurrence.file_path)
    \/ ExtractRaises(ContentOfFile(files_data, occurrence.file_path),
                     occurrence.record.line_number)

CodeReference(files_data, occurrence, kind) ==
    [file            |-> occurrence.file_path,
     description     |-> [kind |-> kind,
                          name |-> occurrence.record.name,
                          line |-> occurrence.record.line_number],
     code            |-> extract_function_code(
                             ContentOfFile(files_data, occurrence.file_path),
                             occurrence.record.name, occurrence.record.line_number),
     highlight_lines |-> <<>>]

\* lines 287-322 and 324-359, which differ in the words of the answer only
HandleNamedQuery(kind, entries, name, files_data) ==
    LET occurrences == Occurrences(entries, name)
        shown == FirstThree(occurrences)
    IN  IF occurrences = <<>>
        THEN Returned([answer          |-> [text |-> "No named found in the repository",
                                            kind |-> kind, name |-> name],
                       code_references |-> <<>>])
        ELSE IF \E i \in 1..Len(shown) : ReferenceRaises(files_data, shown[i])
        THEN HandlerRaised
        ELSE Returned([answer          |-> [text  |-> "Found occurrences of",
                                            count |-> Len(occurrences),
                                            kind  |-> kind, name |-> name],
                       code_references |->
                           [i \in 1..Len(shown) |->
                               CodeReference(files_data, shown[i], kind)]])

\* lines 287-322
handle_function_query(function_name, files_data, analysis) ==
    HandleNamedQuery("function", analysis.functions, function_name, files_data)

\* lines 324-359
handle_class_query(class_name, files_data, analysis) ==
    HandleNamedQuery("class", analysis.classes, class_name, files_data)

\* line 380: imp['name'] raises KeyError for a record without that key
ImportMatchRaises(imp) == "name" \notin DOMAIN imp

\* line 380
ImportMatches(imp, library_name) ==
    \/ Contains(Lower(imp.name), Lower(library_name))
    \/ Contains(Lower(IF "module" \in DOMAIN imp THEN imp.module ELSE <<>>),
                Lower(library_name))

\* lines 379-386: the imports of the file that name the library
FileImports(file_path, library_name, analysis) ==
    SelectSeq(RecordsOf(analysis.imports, file_path),
              LAMBDA imp : ImportMatches(imp, library_name))

\* lines 392-409: the functions or classes of a file whose docstring names the
\* library
UsingLibrary(records, library_name) ==
    SelectSeq(records, LAMBDA r : Contains(Lower(r.docstring), Lower(library_name)))

\* lines 373-409, one file: what the file adds to library_usage
RECURSIVE LibraryUsage(_, _, _)
LibraryUsage(files, library_name, analysis) ==
    IF files = <<>>
    THEN [files |-> <<>>, imports |-> <<>>, functions |-> <<>>, classes |-> <<>>]
    ELSE LET file_path    == files[1].path
             file_imports == FileImports(file_path, library_name, analysis)
             functions    == IF file_imports = <<>> THEN <<>>
                             ELSE UsingLibrary(RecordsOf(analysis.functions, file_path),
                                               library_name)
             classes      == IF file_imports = <<>> THEN <<>>
                             ELSE UsingLibrary(RecordsOf(analysis.classes, file_path),
                                               library_name)
             rest         == LibraryUsage(Tail(files), library_name, analysis)
         IN  [files     |-> (IF file_imports = <<>> THEN <<>> ELSE <<file_path>>)
                            \o rest.files,
              imports   |-> [i \in 1..Len(file_imports) |->
                                [file        |-> file_path,
                                 import      |-> file_imports[i],
                                 line_number |-> file_imports[i].line_number]]
                            \o rest.imports,
              functions |-> [i \in 1..Len(functions) |->
                                [file        |-> file_path,
                                 function    |-> functions[i].name,
                                 line_number |-> functions[i].line_number]]
                            \o rest.functions,
              classes   |-> [i \in 1..Len(classes) |->
                                [file        |-> file_path,
                                 class       |-> classes[i].name,
                                 line_number |-> classes[i].line_number]]
                            \o rest.classes]

\* a record the loop of lines 373-409 cannot read (KeyError): an import without
\* 'name', or a function or class without 'docstring' in a file that imports
\* the library
ScanRaises(files_data, library_name, analysis) ==
    \E f \in 1..Len(files_data) :
        LET file_path == files_data[f].path
            imports   == RecordsOf(analysis.imports, file_path)
            records   == RecordsOf(analysis.functions, file_path)
                         \o RecordsOf(analysis.classes, file_path)
        IN  \/ \E i \in 1..Len(imports) : ImportMatchRaises(imports[i])
            \/ /\ FileImports(file_path, library_name, analysis) # <<>>
               /\ \E i \in 1..Len(records) : "docstring" \notin DOMAIN records[i]

\* lines 432-446: the lines around the first import
ImportReference(files_data, sample_import, library_name) ==
    LET lines      == SplitLines(ContentOfFile(files_data, sample_import.file))
        start_line == Max(0, sample_import.line_number - 2)
        end_line   == Min(Len(lines), sample_import.line_number + 2)
    IN  [file            |-> sample_import.file,
         description     |-> [kind |-> "import", name |-> library_name],
         code            |-> JoinLines(SubSeq(lines, start_line + 1, end_line)),
         highlight_lines |-> <<sample_import.line_number - start_line>>]

\* lines 448-474: the first function and the first class using the library
UsageReference(files_data, sample, name, kind, library_name) ==
    [file            |-> sample.file,
     description     |-> [kind |-> kind, name |-> library_name],
     code            |-> extract_function_code(ContentOfFile(files_data, sample.file),
                                               name, sample.line_number),
     highlight_lines |-> <<>>]

\* lines 361-480
handle_import_query(library_name, files_data, analysis) ==
    IF ScanRaises(files_data, library_name, analysis) THEN HandlerRaised
    ELSE
    LET usage == LibraryUsage(files_data, library_name, analysis)
        library_usage ==
            [imports     |-> usage.imports,
             functions   |-> usage.functions,
             classes     |-> usage.classes,
             total_usage |-> Len(usage.imports) + Len(usage.functions)
                             + Len(usage.classes)]
    IN  IF usage.files = <<>>
        THEN Returned([answer          |-> [text |-> "The library is not used in this repository",
                                            name |-> library_name],
                       code_references |-> <<>>])
        ELSE IF \/ /\ usage.functions # <<>>
                   /\ ExtractRaises(ContentOfFile(files_data, usage.functions[1].file),
                                    usage.functions[1].line_number)
                \/ /\ usage.classes # <<>>
                   /\ ExtractRaises(ContentOfFile(files_data, usage.classes[1].file),
                                    usage.classes[1].line_number)
        THEN HandlerRaised
        ELSE Returned(
                 [answer          |-> [text      |-> "The library is used in files",
                                       name      |-> library_name,
                                       files     |-> Len(usage.files),
                                       imports   |-> Len(usage.imports),
                                       functions |-> Len(usage.functions),
                                       classes   |-> Len(usage.classes)],
                  code_references |->
                      <<ImportReference(files_data, usage.imports[1], library_name)>>
                      \o (IF usage.functions = <<>> THEN <<>>
                          ELSE <<UsageReference(files_data, usage.functions[1],
                                                usage.functions[1].function,
                                                "function", library_name)>>)
                      \o (IF usage.classes = <<>> THEN <<>>
                          ELSE <<UsageReference(files_data, usage.classes[1],
                                                usage.classes[1].class,
                                                "class", library_name)>>),
                  library_usage   |-> library_usage])

----------------------------------------------------------------------------
(* code_analyzer.get_file_language and query_processor.handle_summary_query *)
(* File paths, language names and questions are sequences of characters.     *)

\* code_analyzer.get_file_language: the extension is the text from the last dot
\* of the last path component on, unless only dots come before that dot in the
\* component (os.path.splitext); lines 327-338 map it, in lower case, to a name
get_file_language(file_path) ==
    LET sepIndex == IF \E i \in 1..Len(file_path) : file_path[i] = "/"
                    THEN CHOOSE i \in 1..Len(file_path) :
                             /\ file_path[i] = "/"
                             /\ \A m \in (i + 1)..Len(file_path) : file_path[m] # "/"
                    ELSE 0
        dotIndex == IF \E i \in 1..Len(file_path) : file_path[i] = "."
                    THEN CHOOSE i \in 1..Len(file_path) :
                             /\ file_path[i] = "."
                             /\ \A m \in (i + 1)..Len(file_path) : file_path[m] # "."
                    ELSE 0
        extension == IF /\ dotIndex > sepIndex
                        /\ \E m \in (sepIndex + 1)..(dotIndex - 1) : file_path[m] # "."
                     THEN Lower(SubSeq(file_path, dotIndex, Len(file_path)))
                     ELSE <<>>
        language_map ==
            << [extension |-> <<".", "p", "y">>,
                language  |-> <<"P", "y", "t", "h", "o", "n">>],
               [extension |-> <<".", "j", "s">>,
                language  |-> <<"J", "a", "v", "a", "S", "c", "r", "i", "p", "t">>],
               [extension |-> <<".", "t", "s">>,
                language  |-> <<"T", "y", "p", "e", "S", "c", "r", "i", "p", "t">>],
               [extension |-> <<".", "j", "s", "x">>,
                language  |-> <<"R", "e", "a", "c", "t", "/", "J", "S", "X">>],
               [extension |-> <<".", "t", "s", "x">>,
                language  |-> <<"R", "e", "a", "c", "t", "/", "T", "S", "X">>],
               [extension |-> <<".", "h", "t", "m", "l">>,
                language  |-> <<"H", "T", "M", "L">>],
               [extension |-> <<".", "c", "s", "s">>,
                language  |-> <<"C", "S", "S">>],
               [extension |-> <<".", "j", "s", "o", "n">>,
                language  |-> <<"J", "S", "O", "N">>],
               [extension |-> <<".", "m", "d">>,
                language  |-> <<"M", "a", "r", "k", "d", "o", "w", "n">>],
               [extension |-> <<".", "t", "x", "t">>,
                language  |-> <<"T", "e", "x", "t">>] >>
    IN  IF \E n \in 1..Len(language_map) : language_map[n].extension = extension
        THEN language_map[CHOOSE n \in 1..Len(language_map) :
                              language_map[n].extension = extension].language
        ELSE <<"U", "n", "k", "n", "o", "w", "n">>

\* line 199: the alternatives of the pattern, in the order the pattern lists them
LanguageAlternatives ==
    << <<"p", "y", "t", "h", "o", "n">>,
       <<"j", "a", "v", "a", "s", "c", "r", "i", "p", "t">>,
       <<"t", "y", "p", "e", "s", "c", "r", "i", "p", "t">>,
       <<"h", "t", "m", "l">>,
       <<"c", "s", "s">>,
       <<"j", "a", "v", "a">>,
       <<"c", "+", "+">>,
       <<"r", "u", "b", "y">>,
       <<"g", "o">>,
       <<"r", "u", "s", "t">> >>

\* whether alternative n of the pattern matches query at position i, case ignored
AlternativeAt(query, i, n) ==
    /\ i + Len(LanguageAlternatives[n]) - 1 <= Len(query)
    /\ Lower(SubSeq(query, i, i + Len(LanguageAlternatives[n]) - 1))
           = LanguageAlternatives[n]

\* line 199: re.search takes the leftmost position where an alternative matches
\* and the first alternative that matches there; group(1) is the matched text
language_match(query) ==
    IF \E i \in 1..Len(query), n \in 1..Len(LanguageAlternatives) :
           AlternativeAt(query, i, n)
    THEN LET i == CHOOSE j \in 1..Len(query) :
                      /\ \E n \in 1..Len(LanguageAlternatives) : AlternativeAt(query, j, n)
                      /\ \A m \in 1..(j - 1), n \in 1..Len(LanguageAlternatives) :
                             ~AlternativeAt(query, m, n)
             n == CHOOSE a \in 1..Len(LanguageAlternatives) :
                      /\ AlternativeAt(query, i, a)
                      /\ \A b \in 1..(a - 1) : ~AlternativeAt(query, i, b)
         IN  SubSeq(query, i, i + Len(LanguageAlternatives[n]) - 1)
    ELSE None

\* query_processor.truncate_code (lines 564-570): a text of more than max_lines
\* lines is cut to its first max_lines // 2 and its last -(-max_lines // 2) lines
truncate_code(content, max_lines) ==
    LET lines == SplitLines(content)
        last  == max_lines - (max_lines \div 2)
    IN  IF Len(lines) <= max_lines
        THEN content
        ELSE JoinLines(SubSeq(lines, 1, max_lines \div 2))
                 \o <<NL, "...", NL>>
                 \o JoinLines(SubSeq(lines, Len(lines) - last + 1, Len(lines)))

\* lines 229 and 275: max_lines of the code shown with a reference
SampleLines == 15

\* code_analyzer.generate_file_summary (lines 439-447): the keys the handlers read
generate_file_summary(file_path, content, language) ==
    LET lines == SplitLines(content)
    IN  [path       |-> file_path,
         language   |-> language,
         code_lines |-> Cardinality({i \in 1..Len(lines) :
                                        /\ Strip(lines[i]) # <<>>
                                        /\ Strip(lines[i])[1] # "#"})]

\* analysis['file_summaries'].get(path, {}) with the defaults lines 212 and 584
\* read from it
SummaryOf(file_summaries, file_path) ==
    IF \E i \in 1..Len(file_summaries) : file_summaries[i].path = file_path
    THEN file_summaries[CHOOSE i \in 1..Len(file_summaries) :
                            file_summaries[i].path = file_path]
    ELSE [path |-> file_path, language |-> <<>>, code_lines |-> 0]

\* the characters of the paths in the order of their code points
CodePoints ==
    <<" ", "+", "-", ".", "/", "0", "1", "2", "3", "4", "5", "6", "7", "8", "9">>
        \o UpperCaseLetters \o <<"_">> \o LowerCaseLetters

\* a < b for two strings, as sorted() compares them
RECURSIVE StringLess(_, _)
StringLess(a, b) ==
    IF b = <<>> THEN FALSE
    ELSE IF a = <<>> THEN TRUE
    ELSE IF a[1] = b[1] THEN StringLess(Tail(a), Tail(b))
    ELSE (CHOOSE n \in 1..Len(CodePoints) : CodePoints[n] = a[1])
             < (CHOOSE n \in 1..Len(CodePoints) : CodePoints[n] = b[1])

\* sorted(paths), for paths that are all different
RECURSIVE SortedPaths(_)
SortedPaths(paths) ==
    IF paths = {} THEN <<>>
    ELSE LET least == CHOOSE p \in paths : \A q \in paths : ~StringLess(q, p)
         IN  <<least>> \o SortedPaths(paths \ {least})

\* lines 243-253: the directories are the proper prefixes of the paths that end
\* before a '/'; the tree has a line for every directory and file, each with its
\* indentation depth, whether it carries the branch mark, and its base name
DirectoryTree(files_data) ==
    LET dirs  == UNION {{SubSeq(files_data[i].path, 1, j - 1) :
                            j \in {m \in 1..Len(files_data[i].path) :
                                       files_data[i].path[m] = "/"}} :
                        i \in 1..Len(files_data)}
        paths == SortedPaths(dirs \cup {files_data[i].path : i \in 1..Len(files_data)})
        slashes(path) == {i \in 1..Len(path) : path[i] = "/"}
    IN  [n \in 1..Len(paths) |->
            [depth  |-> Cardinality(slashes(paths[n])),
             branch |-> slashes(paths[n]) # {},
             name   |-> SubSeq(paths[n],
                               1 + (IF slashes(paths[n]) = {} THEN 0
                                    ELSE CHOOSE i \in slashes(paths[n]) :
                                             \A m \in slashes(paths[n]) : m <= i),
                               Len(paths[n]))]]

\* identify_important_files lines 578-602: the score of a file, in hundredths,
\* and the reason given for it
Importance(file_path, analysis) ==
    LET size      == SummaryOf(analysis.file_summaries, file_path).code_lines
        functions == Len(RecordsOf(analysis.functions, file_path)) * 200
        classes   == Len(RecordsOf(analysis.classes, file_path)) * 300
        imports   == Len(RecordsOf(analysis.imports, file_path)) * 150
        init      == <<"_", "_", "i", "n", "i", "t", "_", "_", ".", "p", "y">>
    IN  [score  |-> size + functions + classes + imports,
         reason |->
             IF functions > classes /\ functions > size
             THEN [text  |-> "Contains functions",
                   count |-> Len(RecordsOf(analysis.functions, file_path))]
             ELSE IF classes > functions /\ classes > size
             THEN [text  |-> "Contains classes",
                   count |-> Len(RecordsOf(analysis.classes, file_path))]
             ELSE IF \/ Contains(Lower(file_path), <<"m", "a", "i", "n">>)
                     \/ Contains(Lower(file_path), <<"a", "p", "p">>)
             THEN [text |-> "Main application file"]
             ELSE IF /\ Len(file_path) >= Len(init)
                     /\ SubSeq(file_path, Len(file_path) - Len(init) + 1,
                               Len(file_path)) = init
             THEN [text |-> "Module initialization file"]
             ELSE IF imports > functions /\ imports > classes
             THEN [text |-> "Key dependency hub"]
             ELSE [text |-> "Important file"]]

\* line 607: sorted(..., reverse=True) keeps the files of one score in their order
RECURSIVE ByImportance(_, _)
ByImportance(files_data, analysis) ==
    IF files_data = <<>> THEN <<>>
    ELSE LET first == CHOOSE i \in 1..Len(files_data) :
                          /\ \A m \in 1..Len(files_data) :
                                 Importance(files_data[m].path, analysis).score
                                     <= Importance(files_data[i].path, analysis).score
                          /\ \A m \in 1..(i - 1) :
                                 Importance(files_data[m].path, analysis).score
                                     < Importance(files_data[i].path, analysis).score
         IN  <<files_data[first]>>
                 \o ByImportance(SubSeq(files_data, 1, first - 1)
                                     \o SubSeq(files_data, first + 1, Len(files_data)),
                                 analysis)

\* identify_important_files
identify_important_files(files_data, analysis) ==
    LET sorted_files == ByImportance(files_data, analysis)
    IN  [n \in 1..Len(sorted_files) |->
            [path   |-> sorted_files[n].path,
             reason |-> Importance(sorted_files[n].path, analysis).reason]]

\* handle_summary_query
handle_summary_query(query, files_data, analysis) ==
    IF language_match(query) # None
    THEN LET capitalized == Capitalize(language_match(query))
             \* lines 201-207
             language ==
                 IF Lower(capitalized) = <<"j", "a", "v", "a", "s", "c", "r", "i", "p", "t">>
                 THEN <<"J", "a", "v", "a", "S", "c", "r", "i", "p", "t">>
                 ELSE IF Lower(capitalized)
                             = <<"t", "y", "p", "e", "s", "c", "r", "i", "p", "t">>
                 THEN <<"T", "y", "p", "e", "S", "c", "r", "i", "p", "t">>
                 ELSE IF Lower(capitalized) = <<"c", "+", "+">>
                 THEN <<"C", "+", "+">>
                 ELSE capitalized
             \* lines 210-213
             language_files ==
                 SelectSeq(files_data,
                           LAMBDA f : SummaryOf(analysis.file_summaries, f.path).language
                                          = language)
         IN  IF language_files = <<>>
             THEN Returned([answer          |-> [text     |-> "No files found",
                                                  language |-> language],
                            code_references |-> <<>>])
             ELSE Returned(
                      [answer          |-> [text     |-> "Found files",
                                            count    |-> Len(language_files),
                                            language |-> language],
                       code_references |->
                           [j \in 1..Min(3, Len(language_files)) |->
                               [file            |-> language_files[j].path,
                                description     |-> [text     |-> "Sample file",
                                                     language |-> language],
                                code            |-> truncate_code(
                                                        language_files[j].content,
                                                        SampleLines),
                                highlight_lines |-> <<>>]]])
    ELSE IF Contains(query, <<"s", "t", "r", "u", "c", "t", "u", "r", "e">>)
    THEN Returned([answer          |-> [text |-> "structure of the repository"],
                   code_references |->
                       << [file            |-> "Directory Structure",
                           description     |-> [text |-> "Repository file organization"],
                           code            |-> DirectoryTree(files_data),
                           highlight_lines |-> <<>>] >>])
    ELSE LET important_files == identify_important_files(files_data, analysis)
         IN  Returned([answer          |-> analysis.summary,
                       code_references |->
                           [j \in 1..Min(3, Len(important_files)) |->
                               [file            |-> important_files[j].path,
                                description     |-> important_files[j].reason,
                                code            |-> truncate_code(
                                    ContentOfFile(files_data, important_files[j].path),
                                    SampleLines),
                                highlight_lines |-> <<>>]]])

----------------------------------------------------------------------------
(* classify_query and the handlers on their own: every query of up to       *)
(* MaxWords words, every lookup of a sample name in a sample repository      *)

QueryWords ==
    { <<"file">>, <<"function">>, <<"class">>, <<"import">>, <<"explain">>,
      <<"x">>, <<"x", ".", "py">>, <<"'", "x", "'">> }

\* ' '.join(words)
RECURSIVE JoinWords(_)
JoinWords(words) ==
    IF words = <<>> THEN <<>>
    ELSE IF Len(words) = 1 THEN words[1]
    ELSE words[1] \o <<" ">> \o JoinWords(Tail(words))

ClassifiedQueries == {JoinWords(ws) : ws \in SeqsUpTo(QueryWords, MaxWords)}

\* code_analyzer.analyze_python_file: the keys of its records the handlers read
FunctionRecord(name, line_number, docstring) ==
    [name |-> name, line_number |-> line_number, docstring |-> docstring]
ImportRecord(name, line_number) ==
    [type |-> "import", name |-> name, alias |-> None, line_number |-> line_number]
FromImportRecord(module, name, line_number) ==
    [type |-> "from", module |-> module, name |-> name, alias |-> None,
     line_number |-> line_number]

\* code_analyzer.analyze_js_file: its records
JsImportRecord(source) ==
    [type |-> "import", source |-> source, statement |-> <<"import", " ", "x">>]
JsFunctionRecord(name, line_number) ==
    [name |-> name, line_number |-> line_number]

Entry(file_path, records) == [file_path |-> file_path, records |-> records]

PyText == <<"import", " ", "x", NL, "def", " ", "x", NL, " ", "x", NL, "class", " ", "x">>
JsText == <<"import", " ", "x", NL, "function", " ", "x">>

\* repositories with the analysis analyze_repository makes of them
SampleRepositories ==
    { [files_data |-> <<>>,
       analysis   |-> [functions |-> <<>>, classes |-> <<>>, imports |-> <<>>]],
      [files_data |-> <<File("a.py", PyText)>>,
       analysis   |->
           [functions |-> <<Entry("a.py", <<FunctionRecord(<<"A", "b">>, 2, <<"a">>)>>)>>,
            classes   |-> <<Entry("a.py", <<FunctionRecord(<<"b">>, 4, <<>>)>>)>>,
            imports   |-> <<Entry("a.py", <<ImportRecord(<<"a">>, 1)>>)>>]],
      [files_data |-> <<File("a.py", PyText), File("b.py", PyText)>>,
       analysis   |->
           [functions |-> <<Entry("a.py", <<FunctionRecord(<<"a">>, 2, <<>>),
                                            FunctionRecord(<<"b", "A">>, 2, <<>>)>>),
                            Entry("b.py", <<FunctionRecord(<<"A", "b">>, 2, <<>>),
                                            FunctionRecord(<<"a", "a">>, 2, <<"b">>)>>)>>,
            classes   |-> <<Entry("a.py", <<FunctionRecord(<<"a">>, 4, <<"b">>)>>),
                            Entry("b.py", <<FunctionRecord(<<"B">>, 4, <<>>)>>)>>,
            imports   |-> <<Entry("a.py", <<ImportRecord(<<"a">>, 1)>>),
                            Entry("b.py", <<FromImportRecord(<<"b">>, <<"a">>, 1)>>)>>]],
      [files_data |-> <<File("a.py", PyText), File("c.js", JsText)>>,
       analysis   |->
           [functions |-> <<Entry("a.py", <<FunctionRecord(<<"a">>, 2, <<>>)>>),
                            Entry("c.js", <<JsFunctionRecord(<<"b">>, 2)>>)>>,
            classes   |-> <<Entry("a.py", <<FunctionRecord(<<"a">>, 4, <<>>)>>),
                            Entry("c.js", <<>>)>>,
            imports   |-> <<Entry("a.py", <<ImportRecord(<<"a">>, 1)>>),
                            Entry("c.js", <<JsImportRecord(<<"a">>)>>)>>]] }

LookupNames == { <<"a">>, <<"b">>, <<"A", "B">>, <<"c">> }

\* the words of the questions handle_summary_query is asked
SummaryWords ==
    { <<"h", "t", "m", "l">>, <<"H", "T", "M", "L">>, <<"c", "s", "s">>,
      <<"p", "y", "t", "h", "o", "n">>,
      <<"j", "a", "v", "a", "s", "c", "r", "i", "p", "t">>,
      <<"T", "y", "p", "e", "S", "c", "r", "i", "p", "t">>,
      <<"j", "a", "v", "a">>, <<"c", "+", "+">>, <<"g", "o", "o", "d">>,
      <<"t", "h", "e">>, <<"s", "t", "r", "u", "c", "t", "u", "r", "e">> }

MaxSummaryWords == 2

\* code_analyzer.analyze_repository: the keys of its result handle_summary_query
\* and identify_important_files read; lines 44 and 54 make the file summaries
AnalysisOf(files_data, functions, classes, imports) ==
    [summary        |-> "repository summary",
     file_summaries |->
         [i \in 1..Len(files_data) |->
             generate_file_summary(files_data[i].path, files_data[i].content,
                                   get_file_language(files_data[i].path))],
     functions      |-> functions,
     classes        |-> classes,
     imports        |-> imports]

SummaryRepositories ==
    { [files_data |-> <<>>,
       analysis   |-> AnalysisOf(<<>>, <<>>, <<>>, <<>>)],
      [files_data |-> <<File(<<"i", ".", "h", "t", "m", "l">>, <<"x">>),
                        File(<<"j", ".", "H", "T", "M", "L">>, <<"x">>)>>,
       analysis   |-> AnalysisOf(<<File(<<"i", ".", "h", "t", "m", "l">>, <<"x">>),
                                   File(<<"j", ".", "H", "T", "M", "L">>, <<"x">>)>>,
                                 <<>>, <<>>, <<>>)],
      [files_data |-> <<File(<<"a", "p", "p", ".", "p", "y">>, PyText),
                        File(<<"w", "/", "i", ".", "h", "t", "m", "l">>, <<"x">>),
                        File(<<"w", "/", "s", ".", "c", "s", "s">>, <<"x">>),
                        File(<<"w", "/", "t", ".", "t", "s">>, JsText)>>,
       analysis   |->
           AnalysisOf(<<File(<<"a", "p", "p", ".", "p", "y">>, PyText),
                        File(<<"w", "/", "i", ".", "h", "t", "m", "l">>, <<"x">>),
                        File(<<"w", "/", "s", ".", "c", "s", "s">>, <<"x">>),
                        File(<<"w", "/", "t", ".", "t", "s">>, JsText)>>,
                      <<Entry(<<"a", "p", "p", ".", "p", "y">>,
                              <<FunctionRecord(<<"a">>, 2, <<>>)>>),
                        Entry(<<"w", "/", "t", ".", "t", "s">>,
                              <<JsFunctionRecord(<<"b">>, 2)>>)>>,
                      <<Entry(<<"a", "p", "p", ".", "p", "y">>,
                              <<FunctionRecord(<<"a">>, 4, <<>>)>>)>>,
                      <<Entry(<<"a", "p", "p", ".", "p", "y">>,
                              <<ImportRecord(<<"a">>, 1)>>),
                        Entry(<<"w", "/", "t", ".", "t", "s">>,
                              <<JsImportRecord(<<"a">>)>>)>>)],
      [files_data |-> <<File(<<"a", ".", "p", "y">>, JoinLines([i \in 1..(SampleLines + 1) |-> <<"x">>])),
                        File(<<"p", "/", "b", ".", "p", "y">>, PyText),
                        File(<<"p", "/", "c", ".", "P", "Y">>, <<"x">>),
                        File(<<"p", "/", "q", "/", "d", ".", "p", "y">>, <<>>),
                        File(<<"e", ".", "j", "s">>, JsText),
                        File(<<"M", ".", "j", "a", "v", "a">>, <<"x">>),
                        File(<<".", "p", "y">>, <<"x">>)>>,
       analysis   |->
           AnalysisOf(<<File(<<"a", ".", "p", "y">>, JoinLines([i \in 1..(SampleLines + 1) |-> <<"x">>])),
                        File(<<"p", "/", "b", ".", "p", "y">>, PyText),
                        File(<<"p", "/", "c", ".", "P", "Y">>, <<"x">>),
                        File(<<"p", "/", "q", "/", "d", ".", "p", "y">>, <<>>),
                        File(<<"e", ".", "j", "s">>, JsText),
                        File(<<"M", ".", "j", "a", "v", "a">>, <<"x">>),
                        File(<<".", "p", "y">>, <<"x">>)>>,
                      <<Entry(<<"p", "/", "b", ".", "p", "y">>,
                              <<FunctionRecord(<<"a">>, 2, <<>>)>>),
                        Entry(<<"e", ".", "j", "s">>,
                              <<JsFunctionRecord(<<"b">>, 2)>>)>>,
                      <<Entry(<<"p", "/", "b", ".", "p", "y">>,
                              <<FunctionRecord(<<"a">>, 4, <<>>)>>)>>,
                      <<Entry(<<"p", "/", "b", ".", "p", "y">>,
                              <<ImportRecord(<<"a">>, 1)>>),
                        Entry(<<"e", ".", "j", "s">>,
                              <<JsImportRecord(<<"a">>)>>)>>)] }

QueryInit ==
    /\ chunks = <<>>
    /\ vector_index = NoIndex
    /\ pc = <<>>
    /\ frame = <<>>
    /\ repositories = <<>>
    /\ upload_folder = {}
    /\ \/ \E q \in ClassifiedQueries : call = [op |-> "query", query |-> q]
       \/ \E n \in LookupNames, r \in SampleRepositories :
              call = [op |-> "lookup", name |-> n, repository |-> r]
       \/ \E ws \in SeqsUpTo(SummaryWords, MaxSummaryWords), r \in SummaryRepositories :
              call = [op |-> "summary", query |-> JoinWords(ws), repository |-> r]

ClassifyQuery ==
    /\ call.op = "query"
    /\ call' = [op     |-> "classify_query",
                query  |-> call.query,
                result |-> classify_query(call.query)]
    /\ UNCHANGED <<chunks, vector_index, threadVars, appVars>>

\* the record of a handler's call
HandlerCall(op, r) ==
    [op         |-> op,
     name       |-> call.name,
     repository |-> call.repository,
     raised     |-> r.raised,
     response   |-> r.response]

HandleFunctionQuery ==
    /\ call.op = "lookup"
    /\ call' = HandlerCall("handle_function_query",
                           handle_function_query(call.name, call.repository.files_data,
                                                 call.repository.analysis))
    /\ UNCHANGED <<chunks, vector_index, threadVars, appVars>>

HandleClassQuery ==
    /\ call.op = "lookup"
    /\ call' = HandlerCall("handle_class_query",
                           handle_class_query(call.name, call.repository.files_data,
                                              call.repository.analysis))
    /\ UNCHANGED <<chunks, vector_index, threadVars, appVars>>

HandleImportQuery ==
    /\ call.op = "lookup"
    /\ call' = HandlerCall("handle_import_query",
                           handle_import_query(call.name, call.repository.files_data,
                                               call.repository.analysis))
    /\ UNCHANGED <<chunks, vector_index, threadVars, appVars>>

HandleSummaryQuery ==
    /\ call.op = "summary"
    /\ \E r \in {handle_summary_query(call.query, call.repository.files_data,
                                      call.repository.analysis)} :
           call' = [op         |-> "handle_summary_query",
                    query      |-> call.query,
                    repository |-> call.repository,
                    raised     |-> r.raised,
                    response   |-> r.response]
    /\ UNCHANGED <<chunks, vector_index, threadVars, appVars>>

QueryNext ==
    \/ ClassifyQuery
    \/ HandleFunctionQuery
    \/ HandleClassQuery
    \/ HandleImportQuery
    \/ HandleSummaryQuery

QuerySpec == QueryInit /\ [][QueryNext]_vars

----------------------------------------------------------------------------
(* Claims about the chunker, checked under ChunkerSpec *)

SplitDone == call.op = "_split_file_into_chunks"

\* C4: joining the contents of the chunks of a file, in order, with a newline
\* between consecutive chunks gives back exactly the content of the file.
C4_ChunksReproduceContent ==
    SplitDone => JoinLines(ContentsOf(call.result)) = call.content

\* a file that was split into three chunks
C4_Witness ==
    SplitDone /\ Len(call.result) = 3

LinesOfChunk(c) == c.start_line..c.end_line

\* C5: the chunks of a file partition its line range in order: the first starts
\* at line 1, each next one starts right after the previous one ends, the last
\* ends at the last line, and each chunk holds end_line - start_line + 1 lines.
C5_ChunksPartitionLines ==
    SplitDone =>
        LET cs == call.result
            n  == Len(SplitLines(call.content))
        IN  /\ UNION {LinesOfChunk(cs[j]) : j \in 1..Len(cs)} = 1..n
            /\ cs # <<>> => cs[1].start_line = 1 /\ cs[Len(cs)].end_line = n
            /\ \A j \in 1..(Len(cs) - 1) : cs[j + 1].start_line = cs[j].end_line + 1
            /\ \A j \in 1..Len(cs) :
                   /\ 1 <= cs[j].start_line
                   /\ cs[j].start_line <= cs[j].end_line
                   /\ Len(SplitLines(cs[j].content))
                          = cs[j].end_line - cs[j].start_line + 1

\* a file of four lines split into two chunks of two lines each
C5_Witness ==
    /\ SplitDone
    /\ Len(call.result) = 2
    /\ call.result[1].end_line = 2
    /\ call.result[2].end_line = 4

\* C6: an empty file (content is the empty string) yields no chunk.
C6_EmptyFileYieldsNoChunk ==
    (SplitDone /\ call.content = <<>>) => call.result = <<>>

----------------------------------------------------------------------------
(* Claims about the RAGProcessor, checked under Spec *)

WithoutEmbeddings(cs) == [i \in 1..Len(cs) |-> [cs[i] EXCEPT !.embedding = NoEmbedding]]

\* the index is the one _build_index makes of the N >= 1 chunks of self.chunks
IndexBuiltFromChunks ==
    chunks # <<>> /\ vector_index = _build_index(chunks, NoIndex)

\* C2: after process_repository(files1) has completed and process_repository(files2)
\* has completed after it, self.chunks is exactly the chunk list of files2 and the
\* index holds exactly len(self.chunks) vectors, the embeddings of those chunks,
\* whatever the number of chunks of files2.
C2_RebuildReflectsOnlySecondInput ==
    (call.op = "process_repository" /\ ~call.raised /\ call.previous.completed) =>
        /\ WithoutEmbeddings(chunks) = ExtendWithFiles(<<>>, call.files_data)
        /\ IndexSize(vector_index) = Len(chunks)
        /\ \A i \in 1..Len(chunks) : vector_index.xb[i] = Encode(chunks[i].content)

NoChunkCorpus(files_data) ==
    \A i \in 1..Len(files_data) : files_data[i].content = <<>>

\* C7: when no chunk can be produced from the corpus (every file is empty),
\* process_repository yields zero chunks and every search after it returns an
\* empty result without raising.
C7_EmptyCorpusYieldsNothing ==
    (call.op = "process_repository" /\ ~call.raised /\ NoChunkCorpus(call.files_data)) =>
        /\ chunks = <<>>
        /\ \A q \in Queries, k \in 1..DefaultK, ok \in BOOLEAN :
               search(chunks, vector_index, q, k, ok) = [raised |-> FALSE, value |-> <<>>]

\* C8: search with k > N on an index built from N >= 1 chunks returns exactly N
\* pairs, one for each indexed chunk and each chunk once, with no padding entry.
C8_LargeKReturnsAllWithoutPadding ==
    (call.op = "search" /\ ~call.raised /\ IndexBuiltFromChunks /\ call.k > Len(chunks)) =>
        /\ Len(call.value) = Len(chunks)
        /\ \A p \in 1..Len(chunks) :
               Cardinality({j \in 1..Len(call.value) : call.value[j].chunk = chunks[p]}) = 1

\* the position in self.chunks of the chunk of the j-th returned pair
PositionOf(j) ==
    CHOOSE p \in 1..Len(chunks) : chunks[p] = call.value[j].chunk

\* C9: search with 1 <= k <= N on an index built from the N chunks returns exactly
\* k pairs: k different chunks, each with the squared distance of its embedding
\* (the vector at its position of the index) to the query embedding, every distance
\* >= 0, in ascending order of distance, and no chunk left out is closer than the
\* last one returned.
C9_SearchReturnsKNearest ==
    (call.op = "search" /\ ~call.raised /\ IndexBuiltFromChunks /\ call.k <= Len(chunks)) =>
        LET v  == call.value
            qe == Encode(call.query)
        IN  /\ Len(v) = call.k
            /\ \A j \in 1..Len(v) :
                   /\ \E p \in 1..Len(chunks) : chunks[p] = v[j].chunk
                   /\ v[j].chunk.embedding = vector_index.xb[PositionOf(j)]
                   /\ v[j].distance = L2Sqr(vector_index.xb[PositionOf(j)], qe)
                   /\ v[j].distance >= 0
            /\ \A i, j \in 1..Len(v) : i < j =>
                   /\ PositionOf(i) # PositionOf(j)
                   /\ v[i].distance <= v[j].distance
            /\ \A p \in 1..Len(chunks) :
                   (\A j \in 1..Len(v) : PositionOf(j) # p) =>
                       \A j \in 1..Len(v) : L2Sqr(vector_index.xb[p], qe) >= v[j].distance

\* a search for the 2 nearest of more than 2 chunks: it returns neither of the
\* first two chunks, and two different distances
C9_Witness ==
    /\ call.op = "search" /\ ~call.raised /\ IndexBuiltFromChunks
    /\ call.k = 2 /\ Len(chunks) > 2
    /\ Len(call.value) = 2
    /\ \A j \in 1..2 : call.value[j].chunk \notin {chunks[1], chunks[2]}
    /\ call.value[1].distance < call.value[2].distance

\* C10: when the text-generation call fails, answer_question does not raise: it
\* returns a response with a non-empty answer stating the error, no sources (even
\* if chunks were retrieved) and confidence 0.
C10_GenerationFailureIsRecovered ==
    (call.op = "answer_question" /\ call.generation = "failed") =>
        /\ ~call.raised
        /\ call.response.answer # ""
        /\ call.response.answer # GeneratedResponse(call.retrieved).answer
        /\ call.response.sources = <<>>
        /\ call.response.confidence = 0

\* the generation call failed after chunks had been retrieved
C10_Witness ==
    /\ call.op = "answer_question"
    /\ call.generation = "failed"
    /\ call.retrieved # <<>>

----------------------------------------------------------------------------
(* Claim about concurrent builds, checked under ThreadsSpec *)

\* the state one call of process_repository alone leaves on a new RAGProcessor
BuiltAlone(files_data) == process_repository(NoIndex, files_data, TRUE)

\* C3: concurrent process_repository calls on one RAGProcessor do not interleave
\* (at most one is between clearing self.chunks and finishing _build_index), so
\* once both calls have finished self.chunks and the index come from exactly one
\* of the two inputs, never from a mixture.
C3_ConcurrentBuildsDoNotMix ==
    (\A t \in Threads : pc[t] = "done") =>
        \E t \in Threads :
            /\ chunks = BuiltAlone(frame[t].files_data).chunks
            /\ vector_index = BuiltAlone(frame[t].files_data).vector_index

----------------------------------------------------------------------------
(* Claims about the requests, checked under AppSpec *)

Range(seq) == {seq[i] : i \in 1..Len(seq)}

\* C1: every search made for a repository R (upload summary, query, generate-docs)
\* runs against an index built from R's files, and every chunk it returns is a
\* chunk of one of R's files.
C1_SearchUsesIndexOfItsRepository ==
    (call.op \in {"/upload", "/query", "/generate-docs"} /\ call.searches # <<>>) =>
        LET own == BuiltAlone(repositories[call.repo_id].files)
        IN  \A n \in 1..Len(call.searches) :
                /\ call.searches[n].index = own.vector_index
                /\ \A j \in 1..Len(call.searches[n].retrieved) :
                       call.searches[n].retrieved[j].chunk \in Range(own.chunks)

----------------------------------------------------------------------------
(* Claims about answer_question, checked under Spec *)

\* C11: when the embedding model fails while answer_question builds the index
\* lazily or embeds the question, answer_question does not raise: it returns a
\* response with empty sources and confidence 0.
C11_EmbeddingFailureIsRecovered ==
    (call.op = "answer_question" /\ call.encode_failed) =>
        /\ ~call.raised
        /\ call.response.sources = <<>>
        /\ call.response.confidence = 0

----------------------------------------------------------------------------
(* Claims about process_query, checked under Spec *)

\* C12: process_query returns, for every question and every outcome of the calls
\* it makes, a response with exactly the keys answer, sources and confidence (it
\* never raises); when it caught an exception the response has empty sources and
\* confidence 0.
C12_ProcessQueryAlwaysResponds ==
    call.op = "process_query" =>
        /\ DOMAIN call.response = {"answer", "sources", "confidence"}
        /\ call.caught => /\ call.response.sources = <<>>
                          /\ call.response.confidence = 0

\* process_query caught an exception of the embedding model or of search
C12_Witness ==
    /\ call.op = "process_query"
    /\ call.caught
    /\ "search" \in call.invoked

StructuralTypes == {"file_specific", "function", "class", "import"}

\* C13: a question that classify_query puts in one of the structural categories
\* (file_specific, function, class, import) is answered without the retriever:
\* process_query calls none of process_repository, answer_question and search
\* for it.
C13_StructuralQuestionsSkipRetriever ==
    (call.op = "process_query" /\ classify_query(call.query)[1] \in StructuralTypes) =>
        call.invoked = {}

----------------------------------------------------------------------------
(* Claims about classify_query and the handlers, checked under QuerySpec *)

\* C14: classify_query tries file, function, class, import, summary keyword,
\* general in this order and the first that matches decides: file_specific iff
\* the file pattern matches; function iff it does not and the function pattern
\* does; class iff neither does and the class pattern does; import iff none of
\* those does and the import pattern does; summary iff no pattern matches and a
\* summary keyword occurs; general otherwise.  A function result carries the
\* identifier that follows 'function' or 'method', also when the query has a
\* summary keyword.
C14_FirstMatchingPatternDecides ==
    call.op = "classify_query" =>
        LET q       == call.query
            type    == call.result[1]
            target  == call.result[2]
            file    == file_match(q) # None
            func    == function_match(q) # None
            class   == class_match(q) # None
            import  == import_match(q) # None
            summary == HasSummaryKeyword(q)
        IN  /\ type = "file_specific" <=> file
            /\ type = "function" <=> ~file /\ func
            /\ type = "class" <=> ~file /\ ~func /\ class
            /\ type = "import" <=> ~file /\ ~func /\ ~class /\ import
            /\ type = "summary" <=> ~file /\ ~func /\ ~class /\ ~import /\ summary
            /\ type = "general" <=> ~file /\ ~func /\ ~class /\ ~import /\ ~summary
            /\ (~file /\ func) =>
                   /\ target # None
                   /\ \E i \in 1..Len(q) :
                          /\ q[i] \in FunctionKeywords
                          /\ target = GroupAfter(q, i, FunctionKeywords, "identifier")

\* a query with a summary keyword that is classified as function
C14_Witness ==
    /\ call.op = "classify_query"
    /\ HasSummaryKeyword(call.query)
    /\ file_match(call.query) = None
    /\ call.result = <<"function", <<"x">>>>

AnswerResponseKeys == {"answer", "sources", "confidence"}

\* C15: every response has the shape {answer, sources, confidence}, the
\* responses of the direct-lookup handlers as well as those of the RAG path.
C15_HandlersReturnAnswerResponse ==
    (/\ call.op \in {"handle_function_query", "handle_class_query",
                     "handle_import_query"}
     /\ ~call.raised) =>
        DOMAIN call.response = AnswerResponseKeys

\* the name is part of no name, module or source recorded for the repository
NothingMatches(op, name, repository) ==
    LET entries == CASE op = "handle_function_query" -> repository.analysis.functions
                     [] op = "handle_class_query" -> repository.analysis.classes
                     [] op = "handle_import_query" -> repository.analysis.imports
    IN  \A e \in 1..Len(entries) : \A i \in 1..Len(entries[e].records) :
            LET r == entries[e].records[i]
            IN  /\ "name" \in DOMAIN r => ~Contains(Lower(r.name), Lower(name))
                /\ "module" \in DOMAIN r => ~Contains(Lower(r.module), Lower(name))
                /\ "source" \in DOMAIN r => ~Contains(Lower(r.source), Lower(name))

NotFoundTexts ==
    {"No named found in the repository", "The library is not used in this repository"}

\* the list of sources of a response, under the key the handlers use for it
SourcesListOf(response) ==
    IF "sources" \in DOMAIN response THEN response.sources
    ELSE response.code_references

----------------------------------------------------------------------------
(* Claims about the confidence of an answer, checked under Spec *)

\* the distance of the best match of a retrieval
TopDistance(relevant_chunks) == relevant_chunks[1].distance

\* C17: the confidence of every response of answer_question lies in [0, 1]; when
\* generation succeeds and something was retrieved it is
\* min(1, max(0, distance of the top result)); when nothing was retrieved it is 0.
C17_ConfidenceIsClampedTopDistance ==
    (call.op = "answer_question" /\ ~call.raised) =>
        /\ 0 <= call.response.confidence
        /\ call.response.confidence <= One
        /\ (call.generation = "returned" /\ call.retrieved # <<>>) =>
               call.response.confidence =
                   (IF TopDistance(call.retrieved) > One THEN One
                    ELSE IF TopDistance(call.retrieved) < 0 THEN 0
                    ELSE TopDistance(call.retrieved))
        /\ call.retrieved = <<>> => call.response.confidence = 0

\* an answer whose best match is farther than 1.0, its confidence cut to 1.0
C17_Witness ==
    /\ call.op = "answer_question"
    /\ call.generation = "returned"
    /\ call.retrieved # <<>>
    /\ TopDistance(call.retrieved) > One
    /\ call.response.confidence = One

\* the answer the RAGProcessor gives next to question, with the embedding model
\* and the generation call working
NextAnswerTo(question) ==
    answer_question(chunks, vector_index, question, <<>>, TRUE, TRUE, TRUE)

\* C18: of two successful answers with something retrieved, the one whose best
\* match is farther does not have the greater confidence.
C18_FartherMatchLowersConfidence ==
    (/\ call.op = "answer_question"
     /\ ~call.raised
     /\ call.generation = "returned"
     /\ call.retrieved # <<>>) =>
        \A q \in Queries :
            LET other == NextAnswerTo(q)
            IN  (/\ ~other.raised
                 /\ other.retrieved # <<>>
                 /\ TopDistance(call.retrieved) > TopDistance(other.retrieved)) =>
                    call.response.confidence <= other.response.confidence

----------------------------------------------------------------------------
(* Claims about what the calls change, checked under Spec *)

C20_EmbeddingsAndIndexFollowChunkOrder ==
    (call.op = "process_repository" /\ ~call.raised /\ chunks # <<>>) =>
        LET returned == EncodeAll(ContentsOf(chunks))
        IN  /\ vector_index # NoIndex
            /\ IndexSize(vector_index) = Len(chunks)
            /\ \A i \in 1..Len(chunks) :
                   /\ chunks[i].embedding # NoEmbedding
                   /\ chunks[i].embedding = returned[i]
                   /\ vector_index.xb[i] = chunks[i].embedding

\* a completed build of several chunks whose embeddings are not all the same
C20_Witness ==
    /\ call.op = "process_repository"
    /\ ~call.raised
    /\ Len(chunks) > 2
    /\ chunks[1].embedding # chunks[Len(chunks)].embedding
    /\ vector_index.xb[Len(chunks)] = chunks[Len(chunks)].embedding

\* C21: while no index has been built (vector_index is None) search returns an
\* empty list and does not raise, for every query and every k, whether or not
\* the embedding model is working.
C21_SearchWithoutIndexReturnsNothing ==
    (call.op = "search" /\ vector_index = NoIndex) =>
        /\ ~call.raised
        /\ call.value = <<>>

\* a search on a RAGProcessor that holds chunks but no index
C21_Witness ==
    /\ call.op = "search"
    /\ vector_index = NoIndex
    /\ chunks # <<>>
    /\ call.value = <<>>

----------------------------------------------------------------------------
(* Further claims about the chunker, checked under ChunkerSpec *)

\* the lines that begin a definition once stripped
DefinitionLines(lines) ==
    {i \in 1..Len(lines) : StartsWithDefOrClass(Strip(lines[i]))}

\* the lines at which a chunk other than the first starts
BoundariesOf(cs) == {cs[j].start_line : j \in 2..Len(cs)}

\* the length, counting line i, of the chunk in progress when line i is read
InProgressAt(cs, i) ==
    LET earlier == {1} \cup {s \in BoundariesOf(cs) : s < i}
    IN  i - (CHOOSE s \in earlier : \A o \in earlier : o <= s) + 1

\* C22: a new chunk starts at a line iff the stripped line begins with 'def ' or
\* 'class ' and the chunk in progress, that line included, has more than one
\* line; the line is the first line of the new chunk and the last chunk runs to
\* the end of the file.  So a definition on line 1 makes no boundary, a file has
\* 1 + (number of definition lines from line 2 on) chunks, and a file without
\* definition lines is one chunk spanning it.
C22_ChunkStartsAtDefinitionLines ==
    SplitDone =>
        LET cs    == call.result
            lines == SplitLines(call.content)
            defs  == DefinitionLines(lines)
        IN  /\ \A i \in 1..Len(lines) :
                   i \in BoundariesOf(cs) <=> (i \in defs /\ InProgressAt(cs, i) > 1)
            /\ \A j \in 2..Len(cs) :
                   SplitLines(cs[j].content)[1] = lines[cs[j].start_line]
            /\ cs # <<>>
            /\ cs[Len(cs)].end_line = Len(lines)
            /\ 1 \notin BoundariesOf(cs)
            /\ Len(cs) = 1 + Cardinality(defs \ {1})
            /\ defs = {} => cs = <<CodeChunk(call.content, "a.py", 1, Len(lines))>>

\* a file that opens with a definition and has an indented one further down
C22_Witness ==
    /\ SplitDone
    /\ 1 \in DefinitionLines(SplitLines(call.content))
    /\ Len(call.result) = 2
    /\ call.result[2].start_line = 3
    /\ call.result[2].content[1] = " "

----------------------------------------------------------------------------
(* Further claims about answer_question, checked under Spec *)

\* C23: on a successful answer the context and the sources list have one entry
\* per retrieved (chunk, distance) pair, in retrieval order, best match first:
\* the context entry shows the chunk's file path, line range and content, the
\* source entry holds file, lines, content and score = the pair's distance; the
\* sources list has at most k = 5 entries.
C23_ContextAndSourcesFollowRetrieval ==
    (call.op = "answer_question" /\ ~call.raised /\ call.generation = "returned") =>
        LET found   == call.retrieved
            sources == call.response.sources
        IN  /\ Len(call.context) = Len(found)
            /\ Len(sources) = Len(found)
            /\ Len(sources) <= DefaultK
            /\ \A j \in 1..Len(found) :
                   /\ call.context[j].file = found[j].chunk.file_path
                   /\ call.context[j].lines
                          = <<found[j].chunk.start_line, found[j].chunk.end_line>>
                   /\ call.context[j].content = found[j].chunk.content
                   /\ sources[j].file = found[j].chunk.file_path
                   /\ sources[j].lines
                          = <<found[j].chunk.start_line, found[j].chunk.end_line>>
                   /\ sources[j].content = found[j].chunk.content
                   /\ sources[j].score = found[j].distance
            /\ \A j \in 1..(Len(found) - 1) :
                   found[j].distance <= found[j + 1].distance

\* a successful answer with k sources, two of them from one file
C23_Witness ==
    /\ call.op = "answer_question"
    /\ call.generation = "returned"
    /\ Len(call.response.sources) = DefaultK
    /\ call.response.sources[1].file = call.response.sources[2].file
    /\ call.response.sources[1].lines # call.response.sources[2].lines
    /\ call.response.sources[1].score < call.response.sources[2].score

----------------------------------------------------------------------------
(* Further claims about the handlers, checked under QuerySpec *)

\* the (file, function) entries of the analysis as pairs <<position of the
\* file's entry, position of the record in it>>
FunctionEntries(analysis) ==
    UNION {{<<e, i>> : i \in 1..Len(analysis.functions[e].records)} :
              e \in 1..Len(analysis.functions)}

NameMatches(record, name) == Contains(Lower(record.name), Lower(name))

\* the entries whose name contains the asked name, ignoring case
MatchingEntries(analysis, name) ==
    {p \in FunctionEntries(analysis) :
        NameMatches(analysis.functions[p[1]].records[p[2]], name)}

\* the number of matching entries that come before entry p in iteration order
MatchesBefore(analysis, name, p) ==
    Cardinality({o \in MatchingEntries(analysis, name) :
                    o[1] < p[1] \/ (o[1] = p[1] /\ o[2] < p[2])})

\* C24: handle_function_query matches the asked name as a case-insensitive
\* substring of the function names of all files: the count in the answer is the
\* number of matching (file, function) entries, the code references are the
\* first min(3, count) of them in iteration order, each naming the file its
\* function was recorded in.
C24_FunctionLookupCountsSubstringMatches ==
    (call.op = "handle_function_query" /\ ~call.raised) =>
        LET analysis == call.repository.analysis
            matching == MatchingEntries(analysis, call.name)
            refs     == call.response.code_references
        IN  /\ matching = {} <=> call.response.answer.text = "No named found in the repository"
            /\ matching # {} =>
                   /\ call.response.answer.count = Cardinality(matching)
                   /\ Len(refs) = Min(3, Cardinality(matching))
                   /\ \A p \in matching :
                          LET n == MatchesBefore(analysis, call.name, p) + 1
                          IN  n <= 3 =>
                                  /\ refs[n].file = analysis.functions[p[1]].file_path
                                  /\ refs[n].description.name
                                         = analysis.functions[p[1]].records[p[2]].name
                                  /\ refs[n].description.line
                                         = analysis.functions[p[1]].records[p[2]].line_number

\* a lookup that matches four functions of two files, differing in case
C24_Witness ==
    /\ call.op = "handle_function_query"
    /\ ~call.raised
    /\ call.response.answer.text = "Found occurrences of"
    /\ call.response.answer.count = 4
    /\ Len(call.response.code_references) = 3
    /\ call.response.code_references[1].file # call.response.code_references[3].file
    /\ call.response.code_references[3].description.name # Lower(call.response.code_references[3].description.name)

----------------------------------------------------------------------------
(* Further claims about the requests, checked under AppSpec *)

C26_FailedBuildLeavesIndexOfChunks ==
    (call.op = "process_repository" /\ call.raised /\ vector_index # NoIndex) =>
        /\ IndexSize(vector_index) = Len(chunks)
        /\ \A i \in 1..Len(chunks) : vector_index.xb[i] = Encode(chunks[i].content)

----------------------------------------------------------------------------
(* Further claims about the confidence of an answer, checked under Spec *)

\* C27: a confidence of 0 identifies a degraded response: whenever the
\* generation call succeeds and something was retrieved, the confidence of the
\* response is greater than 0.
C27_SuccessfulAnswerHasPositiveConfidence ==
    (/\ call.op = "answer_question"
     /\ ~call.raised
     /\ call.generation = "returned"
     /\ call.retrieved # <<>>) =>
        call.response.confidence > 0

\* C28: a repo_id is in the repositories map only if the upload that created it
\* completed successfully: an upload that ends with an error response leaves
\* the map as it was.
C28_FailedUploadStoresNothing ==
    [][(call'.op = "/upload" /\ call'.status # 200) =>
           repositories' = repositories]_vars

\* C29: on every exit path of upload_repository after the zip was saved (a file
\* that is no zip, an empty zip, an extraction or processing error, success)
\* the saved file has been removed when the response is returned.
C29_SavedFileIsRemoved ==
    (call.op = "/upload" /\ call.outcome \notin RejectedUploads) =>
        call.filename \notin upload_folder

----------------------------------------------------------------------------
(* Claims about the summary handler, checked under QuerySpec *)

\* the files of the repository whose analysed language is the language the
\* question names (get_file_language's name of it, compared without case)
FilesOfNamedLanguage(query, repository) ==
    SelectSeq(repository.files_data,
              LAMBDA f : Lower(get_file_language(f.path)) = Lower(language_match(query)))

\* C30: for a question that names a recognised language, handle_summary_query
\* answers 'No <language> files found' only if no file of the repository has
\* that analysed language; when there are such files it reports their count and
\* the first up to three of them as samples; and the language filter decides
\* before the 'structure' branch is looked at.
C30_LanguageFilterReportsFilesOfLanguage ==
    (call.op = "handle_summary_query" /\ language_match(call.query) # None) =>
        LET files == FilesOfNamedLanguage(call.query, call.repository)
        IN  /\ ~call.raised
            /\ call.response.answer.text \in {"No files found", "Found files"}
            /\ call.response.answer.text = "No files found" => files = <<>>
            /\ files # <<>> =>
                   /\ call.response.answer.text = "Found files"
                   /\ call.response.answer.count = Len(files)
                   /\ Len(call.response.code_references)
                          = (IF Len(files) < 3 THEN Len(files) ELSE 3)
                   /\ \A j \in 1..Len(call.response.code_references) :
                          call.response.code_references[j].file = files[j].path

====
